---- MODULE Spec2Model ----
(***************************************************************************)
(* Verification model of the cyber tabletop game backend                   *)
(* (backend/app: routes/game.py, routes/attacks.py, routes/actions.py,     *)
(* routes/scans.py, services/timer.py, services/resolver.py,               *)
(* services/alerts.py, services/seed.py).                                  *)
(*                                                                         *)
(* Three specifications share the variables of this module:                *)
(*   SpecTally   - the vote ledger and the tally block of the vote         *)
(*                 mini-games, as a pure computation;                      *)
(*   SpecResolve - the alert generator followed by the outcome resolver,   *)
(*                 as a pure computation;                                  *)
(*   Spec        - the HTTP handlers and the timer loop as asyncio         *)
(*                 coroutines: every handler is cut into the segments      *)
(*                 between its awaits of broadcaster.emit_to_all, and      *)
(*                 segments of different handlers interleave.              *)
(*                                                                         *)
(* Modelling assumptions.  The routes assign GameState attributes that     *)
(* models.py does not declare (red_turn_count, blue_turn_count,            *)
(* max_turns_per_side, the vote ledgers and their flags, red_scan_ips,     *)
(* blocked_ips), read Scenario.max_turns_per_side and use EventKind        *)
(* members that models.py lacks.  The model takes these as present, the    *)
(* way routes/game.py start_game initialises them.  Wall-clock time is     *)
(* kept as the seconds elapsed since start_time and turn_start_time.       *)
(***************************************************************************)
EXTENDS Integers, Sequences, FiniteSets, TLC

\* ------------------------------------------------------------------------
\* Generic helpers
\* ------------------------------------------------------------------------
\* variant: the sum is stored as it is
Max0Raw(x) == x

Max0(x) == IF x > 0 THEN x ELSE 0

Range(s) == {s[i] : i \in 1..Len(s)}

RECURSIVE SumSeq(_)
SumSeq(s) == IF s = <<>> THEN 0 ELSE Head(s) + SumSeq(Tail(s))

\* ------------------------------------------------------------------------
\* Vote ledger and tally (the block repeated in the six vote handlers)
\* A Python dict keeps insertion order: the ledger is the sequence of its
\* <<voter, choice>> items, the counts the sequence of <<choice, count>>.
\* ------------------------------------------------------------------------
HasKey(d, k) == \E i \in 1..Len(d) : d[i][1] = k

\* d[k] = v : an existing key keeps its position, a new key goes last.
DictSet(d, k, v) ==
    IF HasKey(d, k)
    THEN [i \in 1..Len(d) |-> IF d[i][1] = k THEN <<k, v>> ELSE d[i]]
    ELSE Append(d, <<k, v>>)

\* d.get(k, 0)
DictGet0(d, k) ==
    IF HasKey(d, k) THEN (CHOOSE p \in Range(d) : p[1] = k)[2] ELSE 0

\* variant: a choice is counted once however many voters chose it
RECURSIVE VoteCountsOnce(_)
VoteCountsOnce(votes) ==
    IF votes = <<>> THEN <<>>
    ELSE LET n    == Len(votes)
             rest == VoteCountsOnce(SubSeq(votes, 1, n - 1))
         IN  DictSet(rest, votes[n][2], 1)

\* for choice in votes.values(): vote_counts[choice] = vote_counts.get(choice, 0) + 1
RECURSIVE VoteCounts(_)
VoteCounts(votes) ==
    IF votes = <<>> THEN <<>>
    ELSE LET n    == Len(votes)
             rest == VoteCounts(SubSeq(votes, 1, n - 1))
             c    == votes[n][2]
         IN  DictSet(rest, c, DictGet0(rest, c) + 1)

\* The loop "if count > majority_count": the first entry with the largest
\* count wins; acc is <<majority_choice, majority_count>>.
RECURSIVE MajorityScan(_, _)
MajorityScan(counts, acc) ==
    IF counts = <<>> THEN acc
    ELSE MajorityScan(Tail(counts),
                      IF Head(counts)[2] > acc[2] THEN Head(counts) ELSE acc)

NoChoice == "None"

\* variant: half of the voters is enough
HasMajorityAtLeastHalf(majority_count, total_votes) ==
    IF total_votes > 0 THEN 2 * majority_count >= total_votes ELSE FALSE

\* majority_count > (total_votes / 2) if total_votes > 0 else False
\* (true division: count > total/2 is 2*count > total)
HasMajority(majority_count, total_votes) ==
    IF total_votes > 0 THEN 2 * majority_count > total_votes ELSE FALSE

Tally(votes) ==
    LET counts == VoteCounts(votes)
        top    == MajorityScan(counts, <<NoChoice, 0>>)
        total  == Len(votes)
    IN  [counts         |-> counts,
         totalVotes     |-> total,
         majorityChoice |-> top[1],
         majorityCount  |-> top[2],
         hasMajority    |-> HasMajority(top[2], total)]

\* variant: every vote is added to the ledger
StoreVoteAppend(votes, player, choice) == Append(votes, <<player, choice>>)

\* votes[request.player_name] = choice
StoreVote(votes, player, choice) == DictSet(votes, player, choice)

\* ------------------------------------------------------------------------
\* models.py enumerations and the scenario catalogue of services/seed.py
\* ------------------------------------------------------------------------
AttackTypes == {"RCE", "SQLi", "Bruteforce", "Phishing", "LateralMove", "Exfil"}

BlueActionTypes ==
    {"isolate_host", "block_ip", "block_domain", "update_waf",
     "disable_account", "reset_password", "open_ticket"}

NoTool == "None"

MkAttack(id, ty, to, correct, tool) ==
    [id |-> id, attack_type |-> ty, from_node |-> "internet", to_node |-> to,
     is_correct_choice |-> correct, requires_scan |-> (tool # NoTool),
     required_scan_tool |-> tool]

\* max_turns_per_side: 0 stands for None
Scenarios ==
    [s \in {"scenario-1", "scenario-2"} |->
        IF s = "scenario-1"
        THEN [required_scan_tool |-> "OWASP ZAP",
              max_turns_per_side |-> 4,
              attacks |-> << MkAttack("atk-rce-1", "RCE", "sharepoint-1", TRUE, "OWASP ZAP"),
                             MkAttack("atk-sqli-1", "SQLi", "sharepoint-1", FALSE, "sqlmap"),
                             MkAttack("atk-network-1", "LateralMove", "sharepoint-1", FALSE, "Nmap"),
                             MkAttack("atk-brute-1", "Bruteforce", "sharepoint-1", FALSE, NoTool) >>]
        ELSE [required_scan_tool |-> "HaveIBeenPwned",
              max_turns_per_side |-> 0,
              attacks |-> << MkAttack("atk-phish-1", "Phishing", "endpoint-1", TRUE, "HaveIBeenPwned"),
                             MkAttack("atk-brute-email-1", "Bruteforce", "mail-gw", FALSE, NoTool),
                             MkAttack("atk-lateral-email-1", "LateralMove", "endpoint-1", FALSE, NoTool) >>]]

scenarios_cache == Scenarios

\* ------------------------------------------------------------------------
\* services/alerts.py : generate_alerts
\* A summary is the sequence of its words; timestamps are in half seconds
\* after base_time.
\* ------------------------------------------------------------------------
Tmpl(src, sev, words) == [source |-> src, severity |-> sev, summary |-> words]

templates(ty) ==
    CASE ty = "RCE" ->
           << Tmpl("WAF", "high", <<"POST", "request", "to", "/plugins/legacy.php", "with", "base64-encoded", "payload">>),
              Tmpl("IDS", "critical", <<"Command", "execution", "pattern", "detected:", "/bin/sh", "spawned", "by", "PHP-FPM">>),
              Tmpl("Proxy", "high", <<"Outbound", "network", "connection", "from", "web-1", "to", "external", "IP", "on", "port", "4444">>),
              Tmpl("EDR", "high", <<"File", "system", "write", "detected:", "/tmp/.backdoor.php", "created">>) >>
      [] ty = "SQLi" ->
           << Tmpl("WAF", "medium", <<"SQL", "injection", "pattern", "detected">>),
              Tmpl("DB", "high", <<"Anomalous", "database", "query">>) >>
      [] ty = "Bruteforce" ->
           << Tmpl("IDS", "medium", <<"Multiple", "failed", "login", "attempts">>),
              Tmpl("WAF", "low", <<"Rate", "limit", "threshold", "approached">>) >>
      [] ty = "Phishing" ->
           << Tmpl("Mail GW", "medium", <<"Suspicious", "email", "attachment">>),
              Tmpl("EDR", "high", <<"Macro", "execution", "detected">>) >>
      [] ty = "LateralMove" ->
           << Tmpl("EDR", "high", <<"Lateral", "movement", "via", "RPC">>),
              Tmpl("AD", "critical", <<"Privilege", "escalation", "detected">>) >>
      [] ty = "Exfil" ->
           << Tmpl("Proxy", "high", <<"Large", "data", "transfer", "to", "external", "IP">>),
              Tmpl("Cloud", "medium", <<"Unauthorized", "bucket", "access">>) >>
      [] OTHER -> <<>>

\* seconds; a template beyond the list gets i * 0.5
timing_intervals(ty) ==
    CASE ty = "RCE"         -> <<0, 2, 5, 10, 15>>
      [] ty = "SQLi"        -> <<0, 1, 3>>
      [] ty = "Bruteforce"  -> <<0, 2, 5>>
      [] ty = "Phishing"    -> <<0, 3, 8>>
      [] ty = "LateralMove" -> <<0, 5, 10>>
      [] ty = "Exfil"       -> <<0, 5, 15>>
      [] OTHER              -> <<0, 1, 2>>

\* base_delay of template i (1-based), in half seconds
BaseDelay(ty, i) ==
    IF i <= Len(timing_intervals(ty)) THEN 2 * timing_intervals(ty)[i] ELSE i - 1

NoiseAlert(ts, src, sev) ==
    [id |-> "noise", timestamp |-> ts, source |-> src, severity |-> sev,
     summary |-> <<"Benign", "traffic", "anomaly">>]

\* variant: the share of noise without the floor of one
NoiseCountShare(n, frac10) == (n * frac10) \div 10

\* max(1, int(len(alerts) * uniform(0.2, 0.3))) : frac10 is the factor in tenths
NoiseCount(n, frac10) ==
    LET k == (n * frac10) \div 10 IN IF k > 1 THEN k ELSE 1

\* alerts.sort(key=timestamp) : stable insertion sort
RECURSIVE InsertByTime(_, _)
InsertByTime(sorted, a) ==
    IF sorted = <<>> THEN <<a>>
    ELSE LET n == Len(sorted)
         IN  IF sorted[n].timestamp <= a.timestamp
             THEN Append(sorted, a)
             ELSE Append(InsertByTime(SubSeq(sorted, 1, n - 1), a), sorted[n])

RECURSIVE SortByTime(_)
SortByTime(s) ==
    IF s = <<>> THEN <<>>
    ELSE InsertByTime(SortByTime(SubSeq(s, 1, Len(s) - 1)), s[Len(s)])

\* variant: the list is returned as it was built
generate_alertsUnsorted(attack, with_noise, jit, noise) ==
    LET t    == templates(attack.attack_type)
        real == [i \in 1..Len(t) |->
                    [id        |-> "alert",
                     timestamp |-> BaseDelay(attack.attack_type, i) + jit[i],
                     source    |-> t[i].source,
                     severity  |-> t[i].severity,
                     summary   |-> t[i].summary]]
    IN  IF with_noise THEN real \o noise ELSE real

\* jit[i] is the jitter of template i, noise the list of noise alerts drawn
generate_alerts(attack, with_noise, jit, noise) ==
    LET t    == templates(attack.attack_type)
        real == [i \in 1..Len(t) |->
                    [id        |-> "alert",
                     timestamp |-> BaseDelay(attack.attack_type, i) + jit[i],
                     source    |-> t[i].source,
                     severity  |-> t[i].severity,
                     summary   |-> t[i].summary]]
    IN  SortByTime(IF with_noise THEN real \o noise ELSE real)

\* ------------------------------------------------------------------------
\* services/resolver.py
\* ------------------------------------------------------------------------
\* str.lower() on the words of the alert vocabulary
Lower(w) ==
    CASE w = "POST" -> "post"           [] w = "Command" -> "command"
      [] w = "PHP-FPM" -> "php-fpm"     [] w = "Outbound" -> "outbound"
      [] w = "IP" -> "ip"               [] w = "File" -> "file"
      [] w = "SQL" -> "sql"             [] w = "Anomalous" -> "anomalous"
      [] w = "Multiple" -> "multiple"   [] w = "Rate" -> "rate"
      [] w = "Suspicious" -> "suspicious" [] w = "Macro" -> "macro"
      [] w = "Lateral" -> "lateral"     [] w = "RPC" -> "rpc"
      [] w = "Privilege" -> "privilege" [] w = "Large" -> "large"
      [] w = "Unauthorized" -> "unauthorized" [] w = "Benign" -> "benign"
      [] w = "WAF" -> "waf"   [] w = "IDS" -> "ids"   [] w = "Proxy" -> "proxy"
      [] w = "EDR" -> "edr"   [] w = "DB" -> "db"     [] w = "Mail GW" -> "mail gw"
      [] w = "AD" -> "ad"     [] w = "Cloud" -> "cloud"
      [] w = "Isolate" -> "isolate"
      [] OTHER -> w

\* term in word (substring), over the lower-cased vocabulary
WordHas(word, term) ==
    \/ word = term
    \/ word = "/tmp/.backdoor.php" /\ term = "backdoor"
    \/ word = "database" /\ term = "data"

\* kw in text.lower() : kw and text are word sequences
Contains(text, kw) ==
    \E i \in 1..(Len(text) - Len(kw) + 1) :
        \A j \in 1..Len(kw) : WordHas(Lower(text[i + j - 1]), kw[j])

SuccessKeywords(ty) ==
    CASE ty = "RCE" -> { <<"command", "execution">>, <<"spawned">>,
                         <<"reverse", "shell">>, <<"outbound", "network", "connection">>,
                         <<"backdoor">>, <<"file", "system", "write">> }
      [] ty = "SQLi" -> { <<"anomalous", "database", "query">> }
      [] ty = "Bruteforce" -> { <<"successful", "login">>, <<"authentication", "success">> }
      [] ty = "Phishing" -> { <<"macro", "execution">>, <<"macro">> }
      [] ty = "LateralMove" -> { <<"privilege", "escalation">>, <<"lateral", "movement">> }
      [] ty = "Exfil" -> { <<"large", "data", "transfer">>, <<"data", "transfer">> }
      [] OTHER -> {}

determine_attack_success(attack, alerts) ==
    \E i \in 1..Len(alerts) :
        \/ \E kw \in SuccessKeywords(attack.attack_type) : Contains(alerts[i].summary, kw)
        \/ /\ attack.attack_type = "SQLi"
           /\ Contains(<<alerts[i].source>>, <<"database">>)

Tier(eff, pts, res) == [effectiveness |-> eff, points |-> pts, result |-> res]

NoTier == Tier("none", 0, "none")

\* get_scoring_matrix(attack_type, attack_succeeded).get((action_type, target_correct))
get_scoring_matrix(ty, succeeded, act, target_correct) ==
    CASE ty = "RCE" /\ succeeded ->
           ( CASE act = "isolate_host" /\ target_correct  -> Tier("optimal", 10, "successful_block")
               [] act = "block_ip" /\ target_correct      -> Tier("effective", 6, "successful_mitigation")
               [] act = "update_waf" /\ target_correct    -> Tier("partial", 3, "successful_mitigation")
               [] act = "block_domain" /\ target_correct  -> Tier("ineffective", -2, "unsuccessful_mitigation")
               [] act = "isolate_host" /\ ~target_correct -> Tier("wrong_target", -3, "unsuccessful_block")
               [] OTHER -> NoTier )
      [] ty = "RCE" /\ ~succeeded ->
           ( CASE act = "update_waf" /\ target_correct    -> Tier("optimal", 10, "successful_block")
               [] act = "isolate_host" /\ target_correct  -> Tier("effective", 6, "successful_mitigation")
               [] act = "block_ip" /\ target_correct      -> Tier("partial", 3, "successful_mitigation")
               [] act = "block_domain" /\ target_correct  -> Tier("ineffective", -2, "unsuccessful_mitigation")
               [] act = "update_waf" /\ ~target_correct   -> Tier("wrong_target", -3, "unsuccessful_block")
               [] OTHER -> NoTier )
      [] ty = "SQLi" /\ succeeded ->
           ( CASE act = "isolate_host" /\ target_correct  -> Tier("optimal", 10, "successful_block")
               [] act = "update_waf" /\ target_correct    -> Tier("effective", 6, "successful_mitigation")
               [] OTHER -> NoTier )
      [] ty = "SQLi" /\ ~succeeded ->
           ( CASE act = "update_waf" /\ target_correct    -> Tier("optimal", 10, "successful_block")
               [] act = "isolate_host" /\ target_correct  -> Tier("effective", 6, "successful_mitigation")
               [] OTHER -> NoTier )
      [] ty = "Bruteforce" ->
           ( CASE act = "disable_account" /\ target_correct -> Tier("optimal", 10, "successful_block")
               [] act = "isolate_host" /\ target_correct    -> Tier("effective", 6, "successful_mitigation")
               [] OTHER -> NoTier )
      [] ty = "Phishing" /\ succeeded ->
           ( CASE act = "isolate_host" /\ target_correct  -> Tier("optimal", 10, "successful_block")
               [] act = "block_domain" /\ target_correct  -> Tier("effective", 6, "successful_mitigation")
               [] OTHER -> NoTier )
      [] ty = "Phishing" /\ ~succeeded ->
           ( CASE act = "block_domain" /\ target_correct  -> Tier("optimal", 10, "successful_block")
               [] act = "isolate_host" /\ target_correct  -> Tier("effective", 6, "successful_mitigation")
               [] OTHER -> NoTier )
      [] ty = "LateralMove" ->
           ( CASE act = "isolate_host" /\ target_correct  -> Tier("optimal", 10, "successful_block")
               [] act = "block_ip" /\ target_correct      -> Tier("effective", 6, "successful_mitigation")
               [] OTHER -> NoTier )
      [] ty = "Exfil" /\ succeeded ->
           ( CASE act = "isolate_host" /\ target_correct  -> Tier("optimal", 10, "successful_block")
               [] act = "block_ip" /\ target_correct      -> Tier("effective", 6, "successful_mitigation")
               [] act = "block_domain" /\ target_correct  -> Tier("partial", 3, "successful_mitigation")
               [] OTHER -> NoTier )
      [] ty = "Exfil" /\ ~succeeded ->
           ( CASE act = "block_ip" /\ target_correct      -> Tier("optimal", 10, "successful_block")
               [] act = "isolate_host" /\ target_correct  -> Tier("effective", 6, "successful_mitigation")
               [] act = "block_domain" /\ target_correct  -> Tier("partial", 3, "successful_mitigation")
               [] OTHER -> NoTier )
      [] OTHER -> NoTier

\* variant: only the attack's origin counts as the correct target
evaluate_action_tieredOriginOnly(action, attack, attack_succeeded) ==
    LET tier == get_scoring_matrix(attack.attack_type, attack_succeeded,
                                   action.type, action.target = attack.from_node)
    IN  IF tier = NoTier
        THEN Tier("ineffective", -2, "unsuccessful_mitigation")
        ELSE tier

\* variant: a pair the matrix does not have is scored as no action at all
evaluate_action_tieredNoDefault(action, attack, attack_succeeded) ==
    LET target_correct == (action.target = attack.to_node \/ action.target = attack.from_node)
        tier == get_scoring_matrix(attack.attack_type, attack_succeeded,
                                   action.type, target_correct)
    IN  IF tier = NoTier
        THEN Tier("ineffective", 0, "unsuccessful_mitigation")
        ELSE tier

evaluate_action_tiered(action, attack, attack_succeeded) ==
    LET target_correct == (action.target = attack.to_node \/ action.target = attack.from_node)
        tier == get_scoring_matrix(attack.attack_type, attack_succeeded,
                                   action.type, target_correct)
    IN  IF tier = NoTier
        THEN Tier("ineffective", -2, "unsuccessful_mitigation")
        ELSE tier

\* variant: the same execution points for every attack type
RedPointsUniform(ty) == 10

\* the execution points of the attack type
RedPoints(ty) ==
    CASE ty = "RCE" -> 10
      [] ty = "SQLi" -> 8
      [] ty = "Bruteforce" -> 5
      [] ty = "Phishing" -> 3
      [] ty = "LateralMove" -> 3
      [] ty = "Exfil" -> 5
      [] OTHER -> 0

\* variant: an effective action is looked for before an optimal one
resolve_outcome_tieredEffectiveFirst(attack, actions, alerts) ==
    LET attack_succeeded == determine_attack_success(attack, alerts)
        evals == [i \in 1..Len(actions) |->
                     evaluate_action_tiered(actions[i], attack, attack_succeeded)]
        total_blue_points == SumSeq([i \in 1..Len(evals) |-> evals[i].points])
        overall_result ==
            IF \E i \in 1..Len(evals) : evals[i].effectiveness = "effective"
            THEN "successful_mitigation"
            ELSE IF \E i \in 1..Len(evals) : evals[i].effectiveness = "optimal"
            THEN "successful_block"
            ELSE IF \E i \in 1..Len(evals) : evals[i].points > 0
            THEN "unsuccessful_mitigation"
            ELSE IF actions = <<>> THEN "hit"
            ELSE "unsuccessful_block"
        red_points ==
            IF attack_succeeded
               /\ overall_result \in {"hit", "unsuccessful_block", "unsuccessful_mitigation"}
            THEN RedPoints(attack.attack_type)
            ELSE 0
    IN  [result |-> overall_result,
         attack_succeeded |-> attack_succeeded,
         red |-> red_points,
         blue |-> total_blue_points,
         evaluations |-> evals]

resolve_outcome_tiered(attack, actions, alerts) ==
    LET attack_succeeded == determine_attack_success(attack, alerts)
        evals == [i \in 1..Len(actions) |->
                     evaluate_action_tiered(actions[i], attack, attack_succeeded)]
        total_blue_points == SumSeq([i \in 1..Len(evals) |-> evals[i].points])
        overall_result ==
            IF \E i \in 1..Len(evals) : evals[i].effectiveness = "optimal"
            THEN "successful_block"
            ELSE IF \E i \in 1..Len(evals) : evals[i].effectiveness = "effective"
            THEN "successful_mitigation"
            ELSE IF \E i \in 1..Len(evals) : evals[i].points > 0
            THEN "unsuccessful_mitigation"
            ELSE IF actions = <<>> THEN "hit"
            ELSE "unsuccessful_block"
        red_points ==
            IF attack_succeeded
               /\ overall_result \in {"hit", "unsuccessful_block", "unsuccessful_mitigation"}
            THEN RedPoints(attack.attack_type)
            ELSE 0
    IN  [result |-> overall_result,
         attack_succeeded |-> attack_succeeded,
         red |-> red_points,
         blue |-> total_blue_points,
         evaluations |-> evals]

\* attack.attack_type.value.lower()
TypeLower(ty) ==
    CASE ty = "RCE" -> "rce"                 [] ty = "SQLi" -> "sqli"
      [] ty = "Bruteforce" -> "bruteforce"   [] ty = "Phishing" -> "phishing"
      [] ty = "LateralMove" -> "lateralmove" [] ty = "Exfil" -> "exfil"
      [] OTHER -> ty

AttributionTerms(ty) ==
    {TypeLower(ty), "attack", "rce", "sqli", "sql", "brute", "phish",
     "lateral", "exfil"}

\* legacy: does this action block the attack, and for how many points
LegacyBlockPoints(attack, action) ==
    IF ~(attack.to_node = action.target \/ attack.from_node = action.target) THEN 0
    ELSE IF action.type \in {"isolate_host", "block_ip"} THEN 8
    ELSE IF action.type = "update_waf"
         THEN (IF attack.attack_type \in {"SQLi", "RCE", "Bruteforce"} THEN 8 ELSE 0)
    ELSE IF action.type = "block_domain"
         THEN (IF attack.attack_type \in {"Phishing", "Exfil"} THEN 6 ELSE 0)
    ELSE 0

\* An action is [type, target, note, age]: note is a word sequence (<<>> for
\* None or ""), age the seconds since the action's timestamp.
resolve_outcome_legacy(attack, actions, clock) ==
    IF ~attack.is_correct_choice
    THEN [result |-> "miss", attack_succeeded |-> FALSE, red |-> 0, blue |-> 0,
          evaluations |-> <<>>]
    ELSE
    LET n == Len(actions)
        blockers == {i \in 1..n : LegacyBlockPoints(attack, actions[i]) > 0}
        blocked == blockers # {}
        first == CHOOSE i \in blockers : \A j \in blockers : i <= j
        result == IF blocked THEN "blocked" ELSE "hit"
        b0 == IF blocked THEN LegacyBlockPoints(attack, actions[first]) ELSE 0
        correct_attribution ==
            \E i \in 1..n : \E k \in 1..Len(actions[i].note) :
                \E term \in AttributionTerms(attack.attack_type) :
                    WordHas(Lower(actions[i].note[k]), term)
        contained_quickly ==
            n > 0 /\ clock > 0 /\ \E i \in 1..n : actions[i].age < 300
        b1 == b0 + (IF contained_quickly /\ result # "hit" THEN 5 ELSE 0)
        b2 == b1 + (IF n > 0 THEN (IF correct_attribution THEN 2 ELSE -1) ELSE 0)
        b3 == b2 - (IF n > 3 /\ result # "hit" THEN 5 ELSE 0)
        b4 == IF n > 0 /\ b3 <= 0 /\ ~blocked THEN 1 ELSE b3
    IN  [result |-> result, attack_succeeded |-> FALSE,
         red |-> (IF result = "hit" THEN RedPoints(attack.attack_type) ELSE 0),
         blue |-> b4, evaluations |-> <<>>]

\* resolve_outcome: tiered when alerts are given, else legacy
\* (FEATURE_TIMELINE_SLA is off and no attack_instance is passed)
resolve_outcome(attack, actions, clock, alerts) ==
    IF alerts # <<>>
    THEN resolve_outcome_tiered(attack, actions, alerts)
    ELSE resolve_outcome_legacy(attack, actions, clock)

\* ------------------------------------------------------------------------
\* Bounds of the model and constants of the program
\* ------------------------------------------------------------------------
MaxInflight == 2      \* handlers suspended at an await at the same time
MaxRounds == 2        \* start_game calls per GameState object
MaxResets == 1        \* reset_game calls (each creates a GameState object)
MaxScans == 2         \* scans per round
MaxLaunched == 2      \* entries of launched_attacks
MaxActions == 2       \* entries of blue_actions
MaxTurnCount == 4     \* turn counter value beyond which no request is started
MaxRequests == 4      \* requests handled in one behaviour

turn_time_limit == 300
SCENARIO_DURATION_LIMIT == 1800

\* seconds by which the clock advances in one step
ClockStep == 3 * turn_time_limit

Players == {"p1", "p2"}
IPs == {"198.51.100.7", "203.99.113.10"}
ScanIPs == {"198.51.100.7"}   \* source IPs drawn by run_scan
ScenarioIds == DOMAIN scenarios_cache
StartIds == {"scenario-1"}        \* scenarios the game is started with
ScanTools == {"OWASP ZAP", "Nmap", "HaveIBeenPwned"}
NoTime == -1
NoScenario == "None"
NoTurn == "None"

MiniGames ==
    {"identify_ip", "identify_vulnerability", "select_pivot_strategy",
     "select_attack", "identify_action", "investigate_attack"}

\* requests of the blue team: BlueAction(type, target, note)
ActionInputs ==
    { [type |-> "isolate_host", target |-> "internet", note |-> <<>>],
      [type |-> "update_waf", target |-> "db-1", note |-> <<>>] }
    \cup { [type |-> "block_ip", target |-> ip, note |-> <<>>] : ip \in IPs }

VARIABLES
    objs,              \* the GameState objects ever created, by index
    cur,               \* index of the object bound to routes.game.game_state
    score,             \* routes.score.current_score
    launched_attacks,  \* routes.attacks.launched_attacks
    blue_actions,      \* routes.actions.blue_actions
    h,                 \* handlers suspended at an await
    tm,                \* the timer_loop tasks
    ev,                \* what the last step was: handler and outcome
    awards,            \* history: 5-point bonuses per mini-game since the last start
    accL,              \* history: launches accepted since current_turn last changed
    accA,              \* history: blue actions accepted since current_turn last changed
    nreq,              \* history: requests handled so far
    ledger, tally, latest, lastVote, nSubmits,   \* SpecTally
    rAttack, rAlerts, rActions, rOutcome,        \* SpecResolve
    include_noise      \* SpecResolve: the include_noise argument of generate_alerts

gameVars == <<objs, cur, score, launched_attacks, blue_actions, h, tm, ev,
              awards, accL, accA, nreq>>
tallyVars == <<ledger, tally, latest, lastVote, nSubmits>>
resVars == <<rAttack, rAlerts, rActions, rOutcome, include_noise>>
vars == <<gameVars, tallyVars, resVars>>

\* ------------------------------------------------------------------------
\* models.py GameState, with the attributes the routes add to it.
\* start_elapsed / turn_elapsed are the seconds since start_time /
\* turn_start_time (NoTime when the field is None).
\* ------------------------------------------------------------------------
GameState ==
    [status |-> "lobby", round |-> 0, current_scenario_id |-> NoScenario,
     current_turn |-> NoTurn, start_elapsed |-> NoTime, turn_elapsed |-> NoTime,
     red_briefing_dismissed |-> FALSE,
     red_attack_this_turn |-> FALSE, blue_action_this_turn |-> FALSE,
     red_turn_count |-> 0, blue_turn_count |-> 0, max_turns_per_side |-> 0,
     red_scan_completed |-> FALSE, red_scan_results |-> <<>>,
     red_scan_ips |-> {}, blocked_ips |-> {},
     votes |-> [m \in MiniGames |-> <<>>],
     flags |-> [m \in MiniGames |-> FALSE]]

Score == [red |-> 0, blue |-> 0]

\* a suspended handler: its position, the GameState object its local name
\* game_state is bound to, its request (arg, arg2) and its local outcome
Handler(kind, pc, obj, arg, arg2) ==
    [kind |-> kind, pc |-> pc, obj |-> obj, arg |-> arg, arg2 |-> arg2,
     dr |-> 0, db |-> 0]

Idle == Handler("idle", "-", 0, "-", "-")

NoTask == [alive |-> FALSE, obj |-> 0, pc |-> "sleep", over |-> FALSE]

Task(obj) == [alive |-> TRUE, obj |-> obj, pc |-> "sleep", over |-> FALSE]

Ev(op, res) == [op |-> op, res |-> res]

\* steps that answer no question asked of ev
Quiet == Ev("-", "-")

HasFree == \E i \in 1..MaxInflight : h[i] = Idle

FreeSlot == CHOOSE i \in 1..MaxInflight :
                h[i] = Idle /\ \A j \in 1..MaxInflight : h[j] = Idle => i <= j

Other(side) == IF side = "red" THEN "blue" ELSE "red"

\* variant: the completed turn is not counted
BumpNone(g, side) == g

\* <side>_turn_count += 1
Bump(g, side) ==
    IF side = "red" THEN [g EXCEPT !.red_turn_count = @ + 1]
                    ELSE [g EXCEPT !.blue_turn_count = @ + 1]

\* variant: the hand-over clears the active side instead of naming the next
SwitchToCleared(g, to) ==
    [g EXCEPT !.current_turn = NoTurn, !.turn_elapsed = 0]

\* current_turn = to; turn_start_time = utcnow(); <to>'s once-per-turn guard = False
SwitchTo(g, to) ==
    IF to = "blue"
    THEN [g EXCEPT !.current_turn = "blue", !.turn_elapsed = 0,
                   !.blue_action_this_turn = FALSE]
    ELSE [g EXCEPT !.current_turn = "red", !.turn_elapsed = 0,
                   !.red_attack_this_turn = FALSE]

\* The block that ends a turn voluntarily: count it, then either finish the
\* game (both sides reached max_turns_per_side) or hand the turn over.
CompleteTurn(g, side) ==
    LET g1 == Bump(g, side)
        m  == g1.max_turns_per_side
    IN  IF m > 0 /\ g1.red_turn_count >= m /\ g1.blue_turn_count >= m
        THEN [g1 EXCEPT !.status = "finished"]
        ELSE SwitchTo(g1, Other(side))

\* history variables, kept by every step of the game
Bookkeep ==
    LET boundary == \/ ev'.op \in {"start_game", "reset_game"}
                    \/ cur' # cur
                    \/ objs'[cur'].current_turn # objs[cur].current_turn
    IN  /\ accL' = IF boundary THEN 0
                   ELSE IF ev'.op = "launch_attack" /\ ev'.res = "accepted"
                        THEN accL + 1 ELSE accL
        /\ accA' = IF boundary THEN 0
                   ELSE IF ev'.op = "submit_action" /\ ev'.res = "accepted"
                        THEN accA + 1 ELSE accA

Pure == UNCHANGED <<tallyVars, resVars>>

\* a request is taken up / a suspended coroutine or the clock moves on
CanRequest == nreq < MaxRequests
Request == nreq' = nreq + 1
Continue == nreq' = nreq

\* ------------------------------------------------------------------------
\* services/timer.py : start_timer, stop_timer, timer_loop
\* Task "startup" is the loop created by main.py startup_event (never
\* cancelled); task "game" is the one held in _timer_task.
\* ------------------------------------------------------------------------
stop_timer(t) == [t EXCEPT !["game"] = NoTask]

\* called right after stop_timer, so _timer_task is None and a task is created;
\* the loop binds game_state when it first runs
start_timer(t, o) == [t EXCEPT !["game"] = Task(o)]

\* variant: the turn expires only after the limit has been exceeded
TurnExpiredLate(g) ==
    /\ g.current_turn # NoTurn
    /\ g.turn_elapsed # NoTime
    /\ g.turn_elapsed > turn_time_limit

TurnExpired(g) ==
    /\ g.current_turn # NoTurn
    /\ g.turn_elapsed # NoTime
    /\ g.turn_elapsed >= turn_time_limit

TimerActive(g) ==
    g.status = "running" /\ g.start_elapsed # NoTime /\ g.red_briefing_dismissed

TimerDue(t) ==
    /\ tm[t].alive /\ tm[t].pc = "sleep"
    /\ TimerActive(objs[tm[t].obj])
    /\ \/ TurnExpired(objs[tm[t].obj])
       \/ objs[tm[t].obj].start_elapsed >= SCENARIO_DURATION_LIMIT

\* one iteration of the loop up to its first await
timer_loop(t) ==
    /\ TimerDue(t)
    /\ LET o == tm[t].obj
           g == objs[o]
       IN  IF TurnExpired(g)
           THEN /\ objs' = [objs EXCEPT ![o] =
                     [g EXCEPT !.current_turn = Other(g.current_turn),
                               !.turn_elapsed = 0,
                               !.red_attack_this_turn = FALSE,
                               !.blue_action_this_turn = FALSE]]
                /\ tm' = [tm EXCEPT ![t].pc = "emitted",
                                    ![t].over = (g.start_elapsed >= SCENARIO_DURATION_LIMIT)]
                /\ ev' = Ev("timer_loop", "turn_timeout")
           ELSE /\ objs' = [objs EXCEPT ![o].status = "finished"]
                /\ tm' = tm
                /\ ev' = Ev("timer_loop", "time_limit")
    /\ UNCHANGED <<cur, score, launched_attacks, blue_actions, h, awards>>
    /\ Bookkeep /\ Pure /\ Continue

\* the rest of the iteration, after the turn_timeout / turn_changed emits:
\* the duration check uses the elapsed value computed before the awaits
timer_loop_resume(t) ==
    /\ tm[t].alive /\ tm[t].pc = "emitted"
    /\ IF tm[t].over
       THEN /\ objs' = [objs EXCEPT ![tm[t].obj].status = "finished"]
            /\ ev' = Ev("timer_loop", "time_limit")
       ELSE /\ objs' = objs
            /\ ev' = Ev("timer_loop", "turn_changed")
    /\ tm' = [tm EXCEPT ![t].pc = "sleep", ![t].over = FALSE]
    /\ UNCHANGED <<cur, score, launched_attacks, blue_actions, h, awards>>
    /\ Bookkeep /\ Pure /\ Continue

\* Wall-clock time passes.  The loop wakes every second, so time does not
\* pass while an iteration of a live loop is due or under way.
Elapse(x, cap) ==
    IF x = NoTime THEN NoTime
    ELSE IF x + ClockStep >= cap THEN cap ELSE x + ClockStep

Advance ==
    /\ \A t \in DOMAIN tm : ~TimerDue(t) /\ ~(tm[t].alive /\ tm[t].pc = "emitted")
    /\ objs' = [o \in DOMAIN objs |->
                 [objs[o] EXCEPT
                    !.start_elapsed = Elapse(@, SCENARIO_DURATION_LIMIT),
                    !.turn_elapsed = Elapse(@, turn_time_limit)]]
    /\ objs' # objs
    /\ ev' = Quiet
    /\ UNCHANGED <<cur, score, launched_attacks, blue_actions, h, tm, awards>>
    /\ Bookkeep /\ Pure /\ Continue

\* ------------------------------------------------------------------------
\* routes/game.py
\* ------------------------------------------------------------------------
NoAwards == [m \in MiniGames |-> 0]

\* variant: only the fields named in the round_started payload are written,
\* the rest of the object is inherited
StartBodyInherit(sid) ==
    /\ score' = Score
    /\ launched_attacks' = <<>>
    /\ blue_actions' = <<>>
    /\ objs' = [objs EXCEPT ![cur] =
          [objs[cur] EXCEPT !.status = "running",
                            !.round = objs[cur].round + 1,
                            !.current_scenario_id = sid,
                            !.current_turn = "red",
                            !.start_elapsed = NoTime,
                            !.turn_elapsed = NoTime]]
    /\ tm' = start_timer(stop_timer(tm), cur)
    /\ awards' = NoAwards
    /\ ev' = Ev("start_game", "started")
    /\ UNCHANGED cur

\* the part of start_game after the optional stop of a running game
StartBody(sid) ==
    /\ score' = Score
    /\ launched_attacks' = <<>>
    /\ blue_actions' = <<>>
    /\ objs' = [objs EXCEPT ![cur] =
          [GameState EXCEPT !.status = "running",
                            !.round = objs[cur].round + 1,
                            !.current_scenario_id = sid,
                            !.current_turn = "red",
                            !.max_turns_per_side = scenarios_cache[sid].max_turns_per_side]]
    /\ tm' = start_timer(stop_timer(tm), cur)
    /\ awards' = NoAwards
    /\ ev' = Ev("start_game", "started")
    /\ UNCHANGED cur

start_game(sid) ==
    /\ CanRequest
    /\ objs[cur].round < MaxRounds
    /\ IF objs[cur].status \in {"running", "paused"}
       THEN /\ HasFree
            /\ tm' = stop_timer(tm)
            /\ objs' = [objs EXCEPT ![cur].status = "finished",
                                    ![cur].current_scenario_id = NoScenario]
            /\ h' = [h EXCEPT ![FreeSlot] = Handler("start_game", "stopped", cur, sid, "-")]
            /\ ev' = Ev("start_game", "stopped")
            /\ UNCHANGED <<cur, score, launched_attacks, blue_actions, awards>>
       ELSE /\ StartBody(sid)
            /\ UNCHANGED h
    /\ Bookkeep /\ Pure /\ Request

start_game_resume(i) ==
    /\ h[i].kind = "start_game"
    /\ StartBody(h[i].arg)
    /\ h' = [h EXCEPT ![i] = Idle]
    /\ Bookkeep /\ Pure /\ Continue

dismiss_briefing ==
    /\ CanRequest
    /\ objs[cur].status = "running"
    /\ ~objs[cur].red_briefing_dismissed
    /\ objs' = [objs EXCEPT ![cur].red_briefing_dismissed = TRUE,
                            ![cur].start_elapsed = 0,
                            ![cur].turn_elapsed = 0]
    /\ ev' = Quiet
    /\ UNCHANGED <<cur, score, launched_attacks, blue_actions, h, tm, awards>>
    /\ Bookkeep /\ Pure /\ Request

pause_game ==
    /\ CanRequest
    /\ objs[cur].status = "running"
    /\ objs' = [objs EXCEPT ![cur].status = "paused"]
    /\ ev' = Quiet
    /\ UNCHANGED <<cur, score, launched_attacks, blue_actions, h, tm, awards>>
    /\ Bookkeep /\ Pure /\ Request

resume_game ==
    /\ CanRequest
    /\ objs[cur].status = "paused"
    /\ objs' = [objs EXCEPT ![cur].status = "running"]
    /\ ev' = Quiet
    /\ UNCHANGED <<cur, score, launched_attacks, blue_actions, h, tm, awards>>
    /\ Bookkeep /\ Pure /\ Request

stop_game ==
    /\ CanRequest
    /\ objs[cur].status \in {"running", "paused"}
    /\ tm' = stop_timer(tm)
    /\ objs' = [objs EXCEPT ![cur].status = "finished",
                            ![cur].current_scenario_id = NoScenario]
    /\ ev' = Ev("stop_game", "stopped")
    /\ UNCHANGED <<cur, score, launched_attacks, blue_actions, h, awards>>
    /\ Bookkeep /\ Pure /\ Request

\* the part of reset_game after the optional stop: game_state = GameState()
ResetBody ==
    /\ tm' = stop_timer(tm)
    /\ cur' = cur + 1
    /\ objs' = [objs EXCEPT ![cur + 1] = GameState]
    /\ score' = Score
    /\ launched_attacks' = <<>>
    /\ blue_actions' = <<>>
    /\ ev' = Ev("reset_game", "reset")
    /\ UNCHANGED awards

ResetsPending == Cardinality({i \in 1..MaxInflight : h[i].kind = "reset_game"})

reset_game ==
    /\ CanRequest
    /\ cur + ResetsPending < MaxResets
    /\ IF objs[cur].status \in {"running", "paused"}
       THEN /\ HasFree
            /\ tm' = stop_timer(tm)
            /\ objs' = [objs EXCEPT ![cur].status = "finished"]
            /\ h' = [h EXCEPT ![FreeSlot] = Handler("reset_game", "stopped", cur, "-", "-")]
            /\ ev' = Ev("reset_game", "stopped")
            /\ UNCHANGED <<cur, score, launched_attacks, blue_actions, awards>>
       ELSE /\ ResetBody
            /\ UNCHANGED h
    /\ Bookkeep /\ Pure /\ Request

reset_game_resume(i) ==
    /\ h[i].kind = "reset_game"
    /\ ResetBody
    /\ h' = [h EXCEPT ![i] = Idle]
    /\ Bookkeep /\ Pure /\ Continue

\* ------------------------------------------------------------------------
\* routes/scans.py : run_scan
\* ------------------------------------------------------------------------
AllAttacks == UNION {Range(scenarios_cache[s].attacks) : s \in ScenarioIds}

AttackById(aid) == CHOOSE a \in AllAttacks : a.id = aid

AttackIds(sid) == {a.id : a \in Range(scenarios_cache[sid].attacks)}

ScanPoints(sid, tool) ==
    IF scenarios_cache[sid].required_scan_tool = tool THEN 2
    ELSE IF \E a \in Range(scenarios_cache[sid].attacks) :
               a.requires_scan /\ a.required_scan_tool = tool
         THEN -1
         ELSE 0

\* variant: scans restricted to red's turn, one per turn
run_scanRedTurnOnly(tool, ip) ==
    LET g == objs[cur]
    IN  /\ CanRequest
        /\ g.status = "running"
        /\ g.current_turn = "red"
        /\ g.current_scenario_id # NoScenario
        /\ Len(g.red_scan_results) < MaxScans
        /\ objs' = [objs EXCEPT ![cur] =
              [g EXCEPT !.red_scan_ips = @ \cup {ip},
                        !.red_scan_completed = TRUE,
                        !.red_scan_results = Append(@, tool)]]
        /\ score' = [score EXCEPT !.red = Max0(@ + ScanPoints(g.current_scenario_id, tool))]
        /\ ev' = Ev("run_scan", "accepted")
        /\ UNCHANGED <<cur, launched_attacks, blue_actions, h, tm, awards>>
        /\ Bookkeep /\ Pure /\ Request

run_scan(tool, ip) ==
    LET g == objs[cur]
    IN  /\ CanRequest
        /\ g.status = "running"
        /\ g.current_scenario_id # NoScenario
        /\ Len(g.red_scan_results) < MaxScans
        /\ objs' = [objs EXCEPT ![cur] =
              [g EXCEPT !.red_scan_ips = @ \cup {ip},
                        !.red_scan_completed = TRUE,
                        !.red_scan_results = Append(@, tool)]]
        /\ score' = [score EXCEPT !.red = Max0(@ + ScanPoints(g.current_scenario_id, tool))]
        /\ ev' = Ev("run_scan", "accepted")
        /\ UNCHANGED <<cur, launched_attacks, blue_actions, h, tm, awards>>
        /\ Bookkeep /\ Pure /\ Request

\* ------------------------------------------------------------------------
\* routes/attacks.py : launch_attack
\* ------------------------------------------------------------------------
\* the alerts of a launch; their jitter and noise do not matter to the game
LaunchAlerts(attack) ==
    generate_alerts(attack, TRUE, [i \in 1..Len(templates(attack.attack_type)) |-> 0],
                    <<NoiseAlert(0, "IDS", "low")>>)

\* the random source IP: one that is not a scan IP, or any after ten failures
SourceIPs(g) == IF IPs \ g.red_scan_ips # {} THEN IPs \ g.red_scan_ips ELSE IPs

\* The entry's timestamp is the launch time on the clock that the round's
\* blue actions tick: the number of actions submitted before the launch.
launch_attack(aid, ip) ==
    LET g == objs[cur]
        attack == AttackById(aid)
    IN  /\ CanRequest
        /\ g.status = "running"
        /\ g.current_turn = "red"
        /\ ~g.red_attack_this_turn
        /\ g.current_scenario_id # NoScenario
        /\ aid \in AttackIds(g.current_scenario_id)
        /\ g.red_turn_count < MaxTurnCount
        /\ ip \in SourceIPs(g)
        /\ HasFree
        /\ IF ip \in g.blocked_ips
           THEN /\ score' = [score EXCEPT !.blue = Max0(@ + 8)]
                /\ h' = [h EXCEPT ![FreeSlot] = Handler("launch_attack", "blocked", cur, aid, ip)]
                /\ UNCHANGED launched_attacks
           ELSE /\ ~(attack.requires_scan /\ ~g.red_scan_completed)
                /\ Len(launched_attacks) < MaxLaunched
                /\ launched_attacks' = Append(launched_attacks,
                       [attack_id |-> aid, source_ip |-> ip, is_blocked |-> FALSE,
                        timestamp |-> Len(blue_actions),
                        alerts |-> LaunchAlerts(attack)])
                /\ h' = [h EXCEPT ![FreeSlot] = Handler("launch_attack", "launched", cur, aid, ip)]
                /\ UNCHANGED score
        /\ ev' = Ev("launch_attack", "accepted")
        /\ UNCHANGED <<objs, cur, blue_actions, tm, awards>>
        /\ Bookkeep /\ Pure /\ Request

launch_attack_resume(i) ==
    LET o == h[i].obj
        g == objs[o]
        attack == AttackById(h[i].arg)
    IN  /\ h[i].kind = "launch_attack"
        /\ CASE h[i].pc = "blocked" ->
                  /\ objs' = IF g.current_turn = "red"
                             THEN [objs EXCEPT ![o] =
                                     [SwitchTo(Bump(g, "red"), "blue")
                                        EXCEPT !.red_attack_this_turn = TRUE]]
                             ELSE objs
                  /\ h' = [h EXCEPT ![i] = Idle]
                  /\ ev' = Ev("launch_attack", "blocked")
                  /\ UNCHANGED score
             [] h[i].pc = "launched" ->
                  /\ objs' = [objs EXCEPT ![o] =
                        LET g1 == [g EXCEPT !.red_attack_this_turn = TRUE]
                        IN  IF g.current_turn = "red" THEN CompleteTurn(g1, "red") ELSE g1]
                  /\ h' = [h EXCEPT ![i].pc = "alerted"]
                  /\ ev' = Ev("launch_attack", "turn")
                  /\ UNCHANGED score
             [] h[i].pc = "alerted" ->
                  /\ score' = [score EXCEPT !.red =
                        Max0(@ + (IF attack.is_correct_choice THEN 3 ELSE -2))]
                  /\ h' = [h EXCEPT ![i] = Idle]
                  /\ ev' = Ev("launch_attack",
                              IF attack.is_correct_choice THEN "pending" ELSE "miss")
                  /\ UNCHANGED objs
        /\ UNCHANGED <<cur, launched_attacks, blue_actions, tm, awards>>
        /\ Bookkeep /\ Pure /\ Continue

\* ------------------------------------------------------------------------
\* routes/actions.py : submit_action
\* actions.py binds game_state once, at import: its handlers always use the
\* first GameState object.
\* ------------------------------------------------------------------------
ActionsObj == 0

BlueAction(type, target) == [type |-> type, target |-> target, note |-> <<>>]

submit_action(act) ==
    LET g == objs[ActionsObj]
        g1 == [g EXCEPT !.blue_action_this_turn = TRUE]
        g2 == IF act.type = "block_ip"
              THEN [g1 EXCEPT !.blocked_ips = @ \cup {act.target}]
              ELSE g1
    IN  /\ CanRequest
        /\ g.status = "running"
        /\ g.current_turn = "blue"
        /\ ~g.blue_action_this_turn
        /\ g.blue_turn_count < MaxTurnCount
        /\ Len(blue_actions) < MaxActions
        /\ HasFree
        /\ objs' = [objs EXCEPT ![ActionsObj] = g2]
        /\ IF act.type = "block_ip" /\ act.target \in g.red_scan_ips
           THEN /\ score' = [score EXCEPT !.blue = Max0(@ + 3)]
                /\ h' = [h EXCEPT ![FreeSlot] =
                           Handler("submit_action", "bonus", ActionsObj, act.type, act.target)]
                /\ UNCHANGED blue_actions
           ELSE /\ blue_actions' = Append(blue_actions, BlueAction(act.type, act.target))
                /\ h' = [h EXCEPT ![FreeSlot] =
                           Handler("submit_action", "taken", ActionsObj, act.type, act.target)]
                /\ UNCHANGED score
        /\ ev' = Ev("submit_action", "accepted")
        /\ UNCHANGED <<cur, launched_attacks, tm, awards>>
        /\ Bookkeep /\ Pure /\ Request

\* the attack submit_action resolves: the last launched one, if the current
\* scenario of the handler's GameState has it
Resolvable(g) ==
    /\ launched_attacks # <<>>
    /\ g.current_scenario_id # NoScenario
    /\ launched_attacks[Len(launched_attacks)].attack_id \in AttackIds(g.current_scenario_id)

submit_action_resume(i) ==
    LET o == h[i].obj
        g == objs[o]
        info == launched_attacks[Len(launched_attacks)]
        outcome == resolve_outcome(AttackById(info.attack_id), blue_actions, 1, info.alerts)
    IN  /\ h[i].kind = "submit_action"
        /\ CASE h[i].pc = "bonus" ->
                  /\ blue_actions' = Append(blue_actions, BlueAction(h[i].arg, h[i].arg2))
                  /\ h' = [h EXCEPT ![i].pc = "taken"]
                  /\ ev' = Ev("submit_action", "stored")
                  /\ UNCHANGED <<objs, score>>
             [] h[i].pc = "taken" /\ launched_attacks = <<>> ->
                  /\ objs' = IF g.current_turn = "blue"
                             THEN [objs EXCEPT ![o] = CompleteTurn(g, "blue")]
                             ELSE objs
                  /\ h' = [h EXCEPT ![i] = Idle]
                  /\ ev' = Ev("submit_action", "acknowledged")
                  /\ UNCHANGED <<blue_actions, score>>
             [] h[i].pc = "taken" /\ launched_attacks # <<>> /\ ~Resolvable(g) ->
                  /\ h' = [h EXCEPT ![i] = Idle]
                  /\ ev' = Ev("submit_action", "acknowledged")
                  /\ UNCHANGED <<objs, blue_actions, score>>
             [] h[i].pc = "taken" /\ Resolvable(g) ->
                  /\ h' = [h EXCEPT ![i].pc = "resolved",
                                    ![i].dr = outcome.red, ![i].db = outcome.blue]
                  /\ ev' = Ev("submit_action", outcome.result)
                  /\ UNCHANGED <<objs, blue_actions, score>>
             [] h[i].pc = "resolved" ->
                  /\ score' = [red |-> Max0(score.red + h[i].dr),
                               blue |-> Max0(score.blue + h[i].db)]
                  /\ h' = [h EXCEPT ![i].pc = "scored"]
                  /\ ev' = Ev("submit_action", "score_update")
                  /\ UNCHANGED <<objs, blue_actions>>
             [] h[i].pc = "scored" ->
                  /\ objs' = IF g.current_turn = "blue"
                             THEN [objs EXCEPT ![o] = CompleteTurn(g, "blue")]
                             ELSE objs
                  /\ h' = [h EXCEPT ![i] = Idle]
                  /\ ev' = Ev("submit_action", "acknowledged")
                  /\ UNCHANGED <<blue_actions, score>>
        /\ UNCHANGED <<cur, launched_attacks, tm, awards>>
        /\ Bookkeep /\ Pure /\ Continue

\* ------------------------------------------------------------------------
\* The six vote handlers (routes/scans.py and routes/actions.py)
\* ------------------------------------------------------------------------
VoteSide(m) ==
    IF m \in {"identify_ip", "identify_action", "investigate_attack"}
    THEN "blue" ELSE "red"

\* the GameState object the handler's game_state names: scans.py imports it
\* at each call, actions.py at import
VoteObj(m) == IF m \in {"identify_action", "investigate_attack"} THEN ActionsObj ELSE cur

\* handlers that hand the turn over once a majority exists
VoteSwitches(m) == m \notin {"select_attack", "identify_action"}

VoteChoices(m, g) ==
    CASE m = "identify_ip" -> IPs
      [] m = "identify_vulnerability" -> {"OWASP ZAP", "Nmap"}
      [] m = "select_pivot_strategy" -> {"alternative", "lateral"}
      [] m = "select_attack" ->
           IF g.current_scenario_id = NoScenario THEN {}
           ELSE {"atk-rce-1", "atk-brute-1"} \cap AttackIds(g.current_scenario_id)
      [] m = "identify_action" -> {"update_waf", "block_ip"}
      [] m = "investigate_attack" -> {"succeeded", "blocked"}

\* identify_action compares attack_type.value with upper-case names
CorrectAction(ty) ==
    IF ty = "RCE" THEN "update_waf"
    ELSE IF ty = "SQLI" THEN "update_waf"
    ELSE "block_ip"

\* investigate_attack: the status the attack is taken to have
CorrectStatus(g, info) ==
    IF g.blocked_ips # {} /\ info.source_ip \notin g.blocked_ips
    THEN "succeeded" ELSE "blocked"

\* the checks of the handler after status and turn
VoteGuard(m, g, choice) ==
    CASE m \in {"identify_ip", "select_pivot_strategy"} -> TRUE
      [] m = "identify_vulnerability" -> g.current_scenario_id # NoScenario
      [] m = "select_attack" ->
           /\ g.red_turn_count = 1
           /\ g.current_scenario_id # NoScenario
           /\ choice \in AttackIds(g.current_scenario_id)
           /\ LET a == AttackById(choice)
              IN  a.requires_scan =>
                     \E k \in 1..Len(g.red_scan_results) :
                        g.red_scan_results[k] = a.required_scan_tool
      [] m \in {"identify_action", "investigate_attack"} -> Resolvable(g)

\* majority_is_correct
MajorityIsCorrect(m, g, choice) ==
    CASE m = "identify_ip" -> choice \in g.red_scan_ips
      [] m = "identify_vulnerability" ->
           choice = scenarios_cache[g.current_scenario_id].required_scan_tool
      [] m = "select_pivot_strategy" -> choice = "alternative"
      [] m = "select_attack" ->
           \E k \in 1..Len(scenarios_cache[g.current_scenario_id].attacks) :
              LET as == scenarios_cache[g.current_scenario_id].attacks
              IN  /\ as[k].is_correct_choice
                  /\ \A j \in 1..(k - 1) : ~as[j].is_correct_choice
                  /\ as[k].id = choice
      [] m = "identify_action" ->
           choice = CorrectAction(AttackById(launched_attacks[Len(launched_attacks)].attack_id).attack_type)
      [] m = "investigate_attack" ->
           choice = CorrectStatus(g, launched_attacks[Len(launched_attacks)])

\* variant: the once-only flag is left as it was
FlagKept(m, flag, hasMajority, award) == flag

\* the once-only flag after a vote: select_attack sets it when a majority
\* exists, the other handlers when they award the bonus
FlagAfter(m, flag, hasMajority, award) ==
    IF m = "select_attack" THEN flag \/ hasMajority ELSE flag \/ award

\* One vote handler up to its first await: checks, ledger update, tally,
\* the once-only bonus and its flag.
VoteBegin(m, player, choice) ==
    LET o == VoteObj(m)
        g == objs[o]
        side == VoteSide(m)
        votes1 == StoreVote(g.votes[m], player, choice)
        t == Tally(votes1)
        majority_is_correct ==
            t.majorityChoice # NoChoice /\ MajorityIsCorrect(m, g, t.majorityChoice)
        award == t.hasMajority /\ majority_is_correct /\ ~g.flags[m]
        flag1 == FlagAfter(m, g.flags[m], t.hasMajority, award)
    IN  /\ CanRequest
        /\ g.status = "running"
        /\ g.current_turn = side
        /\ choice \in VoteChoices(m, g)
        /\ VoteGuard(m, g, choice)
        /\ VoteSwitches(m) =>
              (IF side = "red" THEN g.red_turn_count ELSE g.blue_turn_count) < MaxTurnCount
        /\ objs' = [objs EXCEPT ![o] = [g EXCEPT !.votes[m] = votes1, !.flags[m] = flag1]]
        /\ score' = IF award THEN [score EXCEPT ![side] = Max0(@ + 5)] ELSE score
        /\ awards' = IF award THEN [awards EXCEPT ![m] = @ + 1] ELSE awards
        /\ IF VoteSwitches(m) /\ t.hasMajority
           THEN /\ HasFree
                /\ h' = [h EXCEPT ![FreeSlot] = Handler(m, "voted", o, player, choice)]
           ELSE h' = h
        /\ ev' = Ev(m, IF award THEN "awarded" ELSE "voted")
        /\ UNCHANGED <<cur, launched_attacks, blue_actions, tm>>
        /\ Bookkeep /\ Pure /\ Request

\* after the emits: "if has_majority and game_state.current_turn == <side>"
vote_resume(i) ==
    LET o == h[i].obj
        g == objs[o]
        side == VoteSide(h[i].kind)
    IN  /\ h[i].kind \in MiniGames
        /\ objs' = IF g.current_turn = side
                   THEN [objs EXCEPT ![o] = CompleteTurn(g, side)]
                   ELSE objs
        /\ h' = [h EXCEPT ![i] = Idle]
        /\ ev' = Ev(h[i].kind, "turn")
        /\ UNCHANGED <<cur, score, launched_attacks, blue_actions, tm, awards>>
        /\ Bookkeep /\ Pure /\ Continue

identify_ip(player, choice) == VoteBegin("identify_ip", player, choice)
identify_vulnerability(player, choice) == VoteBegin("identify_vulnerability", player, choice)
select_pivot_strategy(player, choice) == VoteBegin("select_pivot_strategy", player, choice)
select_attack(player, choice) == VoteBegin("select_attack", player, choice)
identify_action(player, choice) == VoteBegin("identify_action", player, choice)
investigate_attack(player, choice) == VoteBegin("investigate_attack", player, choice)

\* ------------------------------------------------------------------------
\* Spec : the game
\* ------------------------------------------------------------------------
\* attacks asked for: the correct one and a wrong one
LaunchIds == {"atk-rce-1", "atk-brute-1"}

VoteValues ==
    IPs \cup {"OWASP ZAP", "Nmap", "alternative", "lateral", "update_waf",
              "block_ip", "succeeded", "blocked"} \cup LaunchIds

GameInit ==
    /\ objs = [o \in 0..MaxResets |-> GameState]
    /\ cur = 0
    /\ score = Score
    /\ launched_attacks = <<>>
    /\ blue_actions = <<>>
    /\ h = [i \in 1..MaxInflight |-> Idle]
    /\ tm = [t \in {"startup", "game"} |-> IF t = "startup" THEN Task(0) ELSE NoTask]
    /\ ev = Quiet
    /\ awards = NoAwards
    /\ accL = 0
    /\ accA = 0
    /\ nreq = 0

TallyIdle ==
    /\ ledger = <<>>
    /\ tally = Tally(<<>>)
    /\ latest = <<>>
    /\ lastVote = <<>>
    /\ nSubmits = 0

ResolveIdle ==
    /\ rAttack = MkAttack("-", "-", "-", FALSE, NoTool)
    /\ rAlerts = <<>>
    /\ rActions = <<>>
    /\ rOutcome = [result |-> "-"]
    /\ include_noise = FALSE

Init == GameInit /\ TallyIdle /\ ResolveIdle

Next ==
    \/ \E sid \in StartIds : start_game(sid)
    \/ \E i \in 1..MaxInflight : start_game_resume(i)
    \/ dismiss_briefing
    \/ pause_game
    \/ resume_game
    \/ stop_game
    \/ reset_game
    \/ \E i \in 1..MaxInflight : reset_game_resume(i)
    \/ \E tool \in ScanTools, ip \in ScanIPs : run_scan(tool, ip)
    \/ \E aid \in LaunchIds, ip \in IPs : launch_attack(aid, ip)
    \/ \E i \in 1..MaxInflight : launch_attack_resume(i)
    \/ \E act \in ActionInputs : submit_action(act)
    \/ \E i \in 1..MaxInflight : submit_action_resume(i)
    \/ \E p \in Players, c \in VoteValues : identify_ip(p, c)
    \/ \E p \in Players, c \in VoteValues : identify_vulnerability(p, c)
    \/ \E p \in Players, c \in VoteValues : select_pivot_strategy(p, c)
    \/ \E p \in Players, c \in VoteValues : select_attack(p, c)
    \/ \E p \in Players, c \in VoteValues : identify_action(p, c)
    \/ \E p \in Players, c \in VoteValues : investigate_attack(p, c)
    \/ \E i \in 1..MaxInflight : vote_resume(i)
    \/ \E t \in {"startup", "game"} : timer_loop(t)
    \/ \E t \in {"startup", "game"} : timer_loop_resume(t)
    \/ Advance

Spec == Init /\ [][Next]_vars

\* ------------------------------------------------------------------------
\* SpecCommands : the game with the requests its handlers reject.  A handler
\* that raises HTTPException at one of its precondition checks has run the
\* statements before that check and nothing after it.
\* ------------------------------------------------------------------------
RejectIds == LaunchIds \cup {"atk-phish-1"}

\* the handler has raised: the caller gets the error, nothing was written
Rejected(op) ==
    /\ ev' = Ev(op, "rejected")
    /\ UNCHANGED <<objs, cur, score, launched_attacks, blue_actions, h, tm, awards>>
    /\ Bookkeep /\ Pure /\ Continue

\* variant: the per-turn guard is taken before the scan gate is looked at
launch_attack_rejectedGuardFirst(aid, ip) ==
    /\ ev' = Ev("launch_attack", "rejected")
    /\ objs' = [objs EXCEPT ![cur].red_attack_this_turn = TRUE]
    /\ UNCHANGED <<cur, score, launched_attacks, blue_actions, h, tm, awards>>
    /\ Bookkeep /\ Pure /\ Continue

\* attacks.py lines 37-85 and 191-196: the checks in their order; the scan
\* gate is reached only by a launch whose source IP is not blocked
launch_attack_rejected(aid, ip) ==
    LET g == objs[cur]
    IN  /\ ev.res # "rejected"
        /\ ip \in SourceIPs(g)
        /\ IF g.status # "running" THEN TRUE
           ELSE IF g.current_turn # "red" THEN TRUE
           ELSE IF g.red_attack_this_turn THEN TRUE
           ELSE IF g.current_scenario_id = NoScenario THEN TRUE
           ELSE IF aid \notin AttackIds(g.current_scenario_id) THEN TRUE
           ELSE /\ ip \notin g.blocked_ips
                /\ AttackById(aid).requires_scan
                /\ ~g.red_scan_completed
        /\ Rejected("launch_attack")

\* actions.py lines 415-434
submit_action_rejected(act) ==
    LET g == objs[ActionsObj]
    IN  /\ ev.res # "rejected"
        /\ IF g.status # "running" THEN TRUE
           ELSE IF g.current_turn # "blue" THEN TRUE
           ELSE g.blue_action_this_turn
        /\ Rejected("submit_action")

\* scans.py lines 435-491
select_attack_rejected(player, choice) ==
    LET g == objs[cur]
    IN  /\ ev.res # "rejected"
        /\ IF g.status # "running" THEN TRUE
           ELSE IF g.current_turn # "red" THEN TRUE
           ELSE ~VoteGuard("select_attack", g, choice)
        /\ Rejected("select_attack")

\* scans.py lines 806-829
run_scan_rejected(tool, sid) ==
    LET g == objs[cur]
    IN  /\ ev.res # "rejected"
        /\ IF g.status # "running" THEN TRUE
           ELSE IF g.current_scenario_id = NoScenario THEN TRUE
           ELSE sid # g.current_scenario_id
        /\ Rejected("run_scan")

CommandsNext ==
    \/ Next
    \/ \E aid \in RejectIds, ip \in IPs : launch_attack_rejected(aid, ip)
    \/ \E act \in ActionInputs : submit_action_rejected(act)
    \/ \E p \in Players, c \in RejectIds : select_attack_rejected(p, c)
    \/ \E tool \in ScanTools, sid \in ScenarioIds : run_scan_rejected(tool, sid)

SpecCommands == Init /\ [][CommandsNext]_vars

\* C12: a command rejected for a precondition violation (game not running,
\* wrong turn, per-turn guard consumed, missing scenario or attack, unmet
\* scan gate) leaves GameState, both scores, the launched-attack list, the
\* blue-action list and every vote ledger as they were.
C12_RejectionChangesNothing ==
    [][ ev'.res = "rejected" =>
          /\ objs' = objs
          /\ cur' = cur
          /\ score' = score
          /\ launched_attacks' = launched_attacks
          /\ blue_actions' = blue_actions ]_vars

\* a launch of an attack that needs a scan is refused before any scan
C12_ScanGateRefused ==
    /\ ev = Ev("launch_attack", "rejected")
    /\ objs[cur].status = "running"
    /\ objs[cur].current_turn = "red"
    /\ ~objs[cur].red_attack_this_turn
    /\ ~objs[cur].red_scan_completed
    /\ objs[cur].blocked_ips = {}
    /\ launched_attacks = <<>>

\* ------------------------------------------------------------------------
\* Properties of the game (Spec)
\* ------------------------------------------------------------------------
IncorrectAttack(aid) == ~AttackById(aid).is_correct_choice

\* C1: after any sequence of operations the cumulative red score and the
\* cumulative blue score are both >= 0.
ScoreNonNegative == score.red >= 0 /\ score.blue >= 0

\* the -2 of an incorrect launch has been applied to a red score of 0
C1_PenaltyClampedAtZero ==
    /\ ev = Ev("launch_attack", "miss")
    /\ score.red = 0

\* C2: between two consecutive changes of current_turn at most one
\* launch_attack request and at most one submit_action request is accepted,
\* in every interleaving of the handlers at their awaits.
C2_OneAcceptedPerTurn == accL <= 1 /\ accA <= 1

\* C3: within one round the 5-point bonus of each vote mini-game is added
\* at most once, also when votes follow the majority or handlers interleave.
C3_BonusOncePerRound == \A m \in MiniGames : awards[m] <= 1

\* a second vote confirms a correct majority whose bonus has been awarded
C3_MajorityAgainAfterBonus ==
    /\ awards["identify_vulnerability"] = 1
    /\ ev = Ev("identify_vulnerability", "voted")
    /\ Len(objs[cur].votes["identify_vulnerability"]) = 2
    /\ Tally(objs[cur].votes["identify_vulnerability"]).hasMajority
    /\ Tally(objs[cur].votes["identify_vulnerability"]).majorityChoice = "OWASP ZAP"
    /\ score.red = 5

\* C7: a change of the active side by voluntary completion increments the
\* completing side's turn counter by exactly 1 (the other side's stays); a
\* change of the active side by the turn timer leaves both counters as
\* they were.
C7_TurnCounting ==
    [][ \A o \in DOMAIN objs :
          LET a == objs[o]
              b == objs'[o]
          IN  ( /\ a.current_turn \in {"red", "blue"}
                /\ b.current_turn = Other(a.current_turn)
                /\ b.round = a.round )
              => IF ev'.op = "timer_loop"
                 THEN /\ b.red_turn_count = a.red_turn_count
                      /\ b.blue_turn_count = a.blue_turn_count
                 ELSE IF a.current_turn = "red"
                 THEN /\ b.red_turn_count = a.red_turn_count + 1
                      /\ b.blue_turn_count = a.blue_turn_count
                 ELSE /\ b.blue_turn_count = a.blue_turn_count + 1
                      /\ b.red_turn_count = a.red_turn_count ]_vars

\* red completed a turn by a launch, then blue's turn timed out
C7_TimeoutAfterCompletion ==
    /\ ev = Ev("timer_loop", "turn_timeout")
    /\ objs[cur].current_turn = "red"
    /\ objs[cur].red_turn_count = 1
    /\ objs[cur].blue_turn_count = 0
    /\ launched_attacks # <<>>

\* the turn of the game in play has lasted turn_time_limit seconds
TurnOverdue(o) ==
    /\ objs[o].status = "running"
    /\ objs[o].red_briefing_dismissed
    /\ objs[o].start_elapsed # NoTime
    /\ objs[o].current_turn \in {"red", "blue"}
    /\ objs[o].turn_elapsed # NoTime
    /\ objs[o].turn_elapsed >= turn_time_limit

\* C8: while the game is running with the briefing dismissed and the turn
\* has lasted turn_time_limit (300) seconds, the next iteration of a timer
\* loop acts on it, and that iteration switches current_turn to the other
\* side, resets turn_start_time, emits turn_timeout and leaves both turn
\* counters unchanged.
C8_TimerSwitchesOverdueTurn ==
    /\ [](TurnOverdue(cur) => \E t \in DOMAIN tm : tm[t].obj = cur /\ TimerDue(t))
    /\ [][ \A t \in DOMAIN tm :
             ( /\ tm[t].alive /\ tm[t].pc = "sleep"
               /\ TurnOverdue(tm[t].obj)
               /\ tm'[t].pc # tm[t].pc )
             => LET a == objs[tm[t].obj]
                    b == objs'[tm[t].obj]
                IN  /\ b.current_turn = Other(a.current_turn)
                    /\ b.turn_elapsed = 0
                    /\ ev' = Ev("timer_loop", "turn_timeout")
                    /\ b.red_turn_count = a.red_turn_count
                    /\ b.blue_turn_count = a.blue_turn_count ]_vars

\* red's first turn has timed out
C8_RedTimedOut ==
    /\ ev = Ev("timer_loop", "turn_timeout")
    /\ objs[cur].status = "running"
    /\ objs[cur].current_turn = "blue"
    /\ objs[cur].turn_elapsed = 0
    /\ objs[cur].red_turn_count = 0
    /\ objs[cur].blue_turn_count = 0

\* C9: launching an attack whose is_correct_choice is false always
\* resolves at launch to a final 'miss' with no score increase for red,
\* without waiting for a defending response: the launch handler ends with
\* 'miss', and no later defending action resolves that attack again.
C9_IncorrectLaunchIsFinalMiss ==
    [][ /\ \A i \in 1..MaxInflight :
             ( /\ h[i].kind = "launch_attack"
               /\ IncorrectAttack(h[i].arg)
               /\ h'[i] = Idle )
             => /\ ev' = Ev("launch_attack", "miss")
                /\ score'.red <= score.red
        /\ \A i \in 1..MaxInflight :
             ( /\ h[i].kind = "submit_action" /\ h[i].pc = "taken"
               /\ h'[i].kind = "submit_action" /\ h'[i].pc = "resolved" )
             => ~IncorrectAttack(launched_attacks[Len(launched_attacks)].attack_id) ]_vars

\* C14: a completed game start leaves the round one higher than before,
\* status running, red to move, no turn start time, both per-turn guards
\* false, both turn counters 0, every vote ledger empty, every one-shot flag
\* false, both scores 0 and both lists empty, whatever the state before.
C14_StartReinitializes ==
    [][ ev' = Ev("start_game", "started")
        => LET g == objs'[cur']
           IN  /\ cur' = cur
               /\ g.round = objs[cur].round + 1
               /\ g.status = "running"
               /\ g.current_turn = "red"
               /\ g.turn_elapsed = NoTime
               /\ g.start_elapsed = NoTime
               /\ ~g.red_attack_this_turn
               /\ ~g.blue_action_this_turn
               /\ g.red_turn_count = 0
               /\ g.blue_turn_count = 0
               /\ \A m \in MiniGames : g.votes[m] = <<>> /\ ~g.flags[m]
               /\ ~g.red_scan_completed
               /\ g.red_scan_results = <<>>
               /\ g.red_scan_ips = {}
               /\ g.blocked_ips = {}
               /\ ~g.red_briefing_dismissed
               /\ score' = Score
               /\ launched_attacks' = <<>>
               /\ blue_actions' = <<>> ]_vars

\* the second round has just started over a round that had an attack launched
\* and its handler still suspended
C14_RestartedOverLaunch ==
    /\ ev = Ev("start_game", "started")
    /\ objs[cur].round = 2
    /\ \E i \in DOMAIN h : h[i].kind = "launch_attack"

\* C16: in every GameState current_turn is red, blue or none; it is none only
\* while status is lobby or finished, and it is red or blue whenever status
\* is running or paused.
C16_ActiveSide ==
    \A o \in DOMAIN objs :
        /\ objs[o].current_turn \in {"red", "blue", NoTurn}
        /\ objs[o].current_turn = NoTurn => objs[o].status \in {"lobby", "finished"}
        /\ objs[o].status \in {"running", "paused"} => objs[o].current_turn \in {"red", "blue"}

\* the game was paused after the turn had passed to blue
C16_PausedInBlueTurn ==
    /\ objs[cur].status = "paused"
    /\ objs[cur].current_turn = "blue"
    /\ objs[cur].red_turn_count = 1

\* C17: at every moment at most one timer loop task is alive, and a timer
\* loop that mutates a GameState is the one task started at the latest game
\* start (every earlier task was cancelled before it).
C17_SingleTimerLoop ==
    /\ Cardinality({t \in DOMAIN tm : tm[t].alive}) <= 1
    /\ \A t \in DOMAIN tm : tm[t].alive /\ tm[t].pc = "emitted" => t = "game"

\* C18: a handler of an attack launch, a blue action or a mini-game vote that
\* continues after one of its broadcast awaits changes neither score, nor
\* current_turn, nor a turn counter, nor a per-turn guard: all of these were
\* written before its first await.
TurnFields(g) ==
    <<g.current_turn, g.red_turn_count, g.blue_turn_count,
      g.red_attack_this_turn, g.blue_action_this_turn>>

C18_MutationsBeforeFirstAwait ==
    [][ \A i \in DOMAIN h :
          (/\ h[i].kind \in {"launch_attack", "submit_action"} \cup MiniGames
           /\ h'[i] # h[i])
          => /\ score' = score
             /\ \A o \in DOMAIN objs : TurnFields(objs'[o]) = TurnFields(objs[o]) ]_vars

\* The round_started / round_ended event a step broadcasts, "none" if it
\* broadcasts neither: start_game emits round_ended when it stops a running
\* game and round_started when it has started; stop_game, the stop segment of
\* reset_game and a reset from lobby or finished emit round_ended; so do the
\* timer at the duration limit and a turn completion that finishes the game.
\* pause_game and resume_game broadcast nothing.
RoundEvent ==
    IF ev' = Ev("start_game", "started") THEN "round_started"
    ELSE IF ev'.res = "stopped" THEN "round_ended"
    ELSE IF ev' = Ev("timer_loop", "time_limit") THEN "round_ended"
    ELSE IF ev' = Ev("reset_game", "reset") /\ h' = h THEN "round_ended"
    ELSE IF /\ ev'.op \in {"launch_attack", "submit_action"} \cup MiniGames
            /\ \E o \in DOMAIN objs :
                  objs'[o].status = "finished" /\ objs[o].status # "finished"
         THEN "round_ended"
    ELSE "none"

\* C19 (the part about status): a step that changes the status of the current
\* GameState broadcasts a round_started or round_ended event with it.
C19_StatusChangeHasRoundEvent ==
    [][ (cur' = cur /\ objs'[cur].status # objs[cur].status)
        => RoundEvent # "none" ]_vars

\* C27: for each of the six vote mini-games, a vote accepted on the owning
\* side's turn that leaves a majority goes on to complete the turn (the
\* handler continues after its broadcasts to count the turn, check the turn
\* limit and hand the turn over), whether or not the majority is correct.
C27_MajorityCompletesTurn ==
    [][ \A m \in MiniGames :
          (/\ ev'.op = m /\ ev'.res \in {"voted", "awarded"}
           /\ nreq' = nreq + 1
           /\ Tally(objs'[VoteObj(m)].votes[m]).hasMajority)
          => \E i \in DOMAIN h : h[i] = Idle /\ h'[i].kind = m ]_vars

\* C28: every accepted attack launch appends exactly one entry to the
\* launched-attack list, a launch from a blocked source IP included, and
\* within a round the entries already in the list are neither removed nor
\* changed.
C28_OneEntryPerLaunch ==
    [][ /\ ev' = Ev("launch_attack", "accepted")
           => /\ Len(launched_attacks') = Len(launched_attacks) + 1
              /\ SubSeq(launched_attacks', 1, Len(launched_attacks)) = launched_attacks
        /\ ev'.op \notin {"start_game", "reset_game"}
           => /\ Len(launched_attacks') >= Len(launched_attacks)
              /\ SubSeq(launched_attacks', 1, Len(launched_attacks)) = launched_attacks ]_vars

\* C30: in a running game whose briefing has not been dismissed
\* turn_start_time is null, whatever launches, blue actions or votes were
\* accepted since the start, and no step of the timer loop changes a game
\* whose briefing has not been dismissed (no turn timeout, no finish).
C30_NoClockBeforeDismissal ==
    [][ \A o \in DOMAIN objs :
          /\ (objs'[o].status = "running" /\ ~objs'[o].red_briefing_dismissed)
                => objs'[o].turn_elapsed = NoTime
          /\ (ev'.op = "timer_loop" /\ ~objs[o].red_briefing_dismissed)
                => objs'[o] = objs[o] ]_vars

\* C32: the timer loop emits round_ended with reason time_limit once for a
\* round: only on a step that takes a running game, briefing dismissed and
\* elapsed time at the duration limit, to finished; and it processes a turn
\* timeout only in a game that is running.
C32_TimeLimitOnce ==
    [][ /\ ev' = Ev("timer_loop", "time_limit") =>
              \E o \in DOMAIN objs :
                 /\ objs[o].status = "running"
                 /\ objs[o].red_briefing_dismissed
                 /\ objs[o].start_elapsed >= SCENARIO_DURATION_LIMIT
                 /\ objs'[o].status = "finished"
        /\ ev' = Ev("timer_loop", "turn_timeout") =>
              \E o \in DOMAIN objs :
                 /\ objs[o].status = "running"
                 /\ objs'[o].current_turn # objs[o].current_turn ]_vars

\* C34: choice points are applied at the action: an accepted scan changes
\* red's score by +2 if its tool is the scenario's required scan tool and by
\* -1 otherwise, and a launch that was not blocked changes red's score by +3
\* if the attack's is_correct_choice is true and by -2 otherwise, each
\* clamped at zero; blue's score is left alone.
C34_ChoicePointsAtAction ==
    [][ /\ ev' = Ev("run_scan", "accepted") =>
              LET g == objs'[cur]
                  tool == g.red_scan_results[Len(g.red_scan_results)]
                  required == scenarios_cache[g.current_scenario_id].required_scan_tool
              IN  score' = [score EXCEPT !.red =
                               Max0(@ + (IF tool = required THEN 2 ELSE -1))]
        /\ (ev'.op = "launch_attack" /\ ev'.res \in {"pending", "miss"}) =>
              score' = [score EXCEPT !.red =
                           Max0(@ + (IF ev'.res = "pending" THEN 3 ELSE -2))] ]_vars

\* C35: a mini-game vote changes a score only when, after the vote, a
\* majority exists, the majority choice is the correct answer and the
\* mini-game's one-shot flag is unset; the change is then +5 to the owning
\* side's score, the flag becomes set, and the other side's score is
\* unchanged.
C35_VoteBonus ==
    [][ \A m \in MiniGames :
          (ev'.op = m /\ ev'.res \in {"voted", "awarded"})
          => LET o == VoteObj(m)
                 t == Tally(objs'[o].votes[m])
                 earned == /\ t.hasMajority
                           /\ t.majorityChoice # NoChoice
                           /\ MajorityIsCorrect(m, objs[o], t.majorityChoice)
                           /\ ~objs[o].flags[m]
             IN  IF earned
                 THEN /\ score' = [score EXCEPT ![VoteSide(m)] = @ + 5]
                      /\ objs'[o].flags[m]
                 ELSE score' = score ]_vars

\* blue has just earned the identify_ip bonus while red holds points
C35_BlueBonusBesideRedPoints ==
    /\ ev = Ev("identify_ip", "awarded")
    /\ score.blue = 5
    /\ score.red > 0
    /\ objs[cur].flags["identify_ip"]

\* C36: every handler uses the one GameState: whenever the game that the
\* launch handler writes is running with blue to move, the GameState that
\* submit_action reads is that same object, so it is running with blue to
\* move as well and a blue action is not turned away.
C36_OneGameState ==
    (objs[cur].status = "running" /\ objs[cur].current_turn = "blue")
    => /\ ActionsObj = cur
       /\ objs[ActionsObj].status = "running"
       /\ objs[ActionsObj].current_turn = "blue"

\* C37: while a game is finished or paused, a step that is not a resume, a
\* game start or a reset leaves its current_turn and both turn counters as
\* they were, and leaves both scores as they were.
C37_FrozenWhileNotRunning ==
    [][ \A o \in DOMAIN objs :
          (/\ objs[o].status \in {"finished", "paused"}
           /\ objs'[o].status = objs[o].status
           /\ ev'.op \notin {"start_game", "reset_game"})
          => /\ objs'[o].current_turn = objs[o].current_turn
             /\ objs'[o].red_turn_count = objs[o].red_turn_count
             /\ objs'[o].blue_turn_count = objs[o].blue_turn_count
             /\ o = cur => score' = score ]_vars

\* C38: with max_turns_per_side set, neither turn counter ever exceeds it.
C38_CountersWithinLimit ==
    \A o \in DOMAIN objs :
       objs[o].max_turns_per_side > 0 =>
          /\ objs[o].red_turn_count <= objs[o].max_turns_per_side
          /\ objs[o].blue_turn_count <= objs[o].max_turns_per_side

\* ------------------------------------------------------------------------
\* SpecDefence : the launches and blue actions of a round of scenario-1 in
\* which no turn runs out of time.  The initial state is the one reached by:
\* start, briefing dismissed.  Requests are counted from this state on.
\* ------------------------------------------------------------------------
DefenceState ==
    [GameState EXCEPT !.status = "running", !.round = 1,
                      !.current_scenario_id = "scenario-1",
                      !.max_turns_per_side = scenarios_cache["scenario-1"].max_turns_per_side,
                      !.current_turn = "red",
                      !.start_elapsed = 0, !.turn_elapsed = 0,
                      !.red_briefing_dismissed = TRUE]

DefenceInit ==
    /\ objs = [o \in 0..MaxResets |-> IF o = 0 THEN DefenceState ELSE GameState]
    /\ cur = 0
    /\ score = Score
    /\ launched_attacks = <<>>
    /\ blue_actions = <<>>
    /\ h = [i \in 1..MaxInflight |-> Idle]
    /\ tm = [t \in {"startup", "game"} |-> Task(0)]
    /\ ev = Quiet
    /\ awards = NoAwards
    /\ accL = 0
    /\ accA = 0
    /\ nreq = 0
    /\ TallyIdle
    /\ ResolveIdle

DefenceNext ==
    \/ \E aid \in LaunchIds, ip \in IPs : launch_attack(aid, ip)
    \/ \E i \in 1..MaxInflight : launch_attack_resume(i)
    \/ \E act \in ActionInputs : submit_action(act)
    \/ \E i \in 1..MaxInflight : submit_action_resume(i)

SpecDefence == DefenceInit /\ [][DefenceNext]_vars

\* the defending actions taken against the attack of a launch entry: those
\* submitted after its launch
TakenAgainst(info) == SubSeq(blue_actions, info.timestamp + 1, Len(blue_actions))

\* C29: when a blue action triggers the resolution of an attack, the blue
\* delta is the one of the actions submitted after that attack's launch;
\* actions submitted before the launch, or scored against an earlier attack,
\* are not evaluated again.
C29_OnlyActionsAgainstAttack ==
    [][ \A i \in DOMAIN h :
          (/\ h[i].kind = "submit_action"
           /\ h[i].pc = "taken"
           /\ h'[i].pc = "resolved")
          => LET info == launched_attacks[Len(launched_attacks)]
                 against == resolve_outcome(AttackById(info.attack_id),
                                            TakenAgainst(info), 1, info.alerts)
             IN  h'[i].db = against.blue ]_vars

\* ------------------------------------------------------------------------
\* SpecRetry : launches, blue actions and the timer after the first exchange
\* of a round of scenario-1.  The initial state is the one reached by: start,
\* briefing dismissed, red launches atk-brute-1 from 198.51.100.7, blue
\* isolates 'internet' (resolved: blue +6), turn back with red.  Requests are
\* counted from this state on.
\* ------------------------------------------------------------------------
RetryState ==
    [DefenceState EXCEPT !.blue_action_this_turn = TRUE,
                         !.red_turn_count = 1, !.blue_turn_count = 1]

RetryInit ==
    /\ objs = [o \in 0..MaxResets |-> IF o = 0 THEN RetryState ELSE GameState]
    /\ cur = 0
    /\ score = [red |-> 0, blue |-> 6]
    /\ launched_attacks =
          << [attack_id |-> "atk-brute-1", source_ip |-> "198.51.100.7",
              is_blocked |-> FALSE, timestamp |-> 0,
              alerts |-> LaunchAlerts(AttackById("atk-brute-1"))] >>
    /\ blue_actions = << BlueAction("isolate_host", "internet") >>
    /\ h = [i \in 1..MaxInflight |-> Idle]
    /\ tm = [t \in {"startup", "game"} |-> Task(0)]
    /\ ev = Ev("submit_action", "acknowledged")
    /\ awards = NoAwards
    /\ accL = 0
    /\ accA = 0
    /\ nreq = 0
    /\ TallyIdle
    /\ ResolveIdle

RetryNext ==
    \/ DefenceNext
    \/ \E t \in {"startup", "game"} : timer_loop(t)
    \/ \E t \in {"startup", "game"} : timer_loop_resume(t)
    \/ Advance

SpecRetry == RetryInit /\ [][RetryNext]_vars

\* C39: an attack is resolved by the first blue action submitted after its
\* launch and by no later one: a blue action that triggers a resolution,
\* with no other blue action under way, is the only action submitted since
\* the launch of the attack it resolves.
C39_ResolvedAtMostOnce ==
    [][ \A i \in DOMAIN h :
          (/\ h[i].kind = "submit_action"
           /\ h[i].pc = "taken"
           /\ h'[i].pc = "resolved"
           /\ \A j \in DOMAIN h \ {i} : h[j].kind # "submit_action")
          => Len(TakenAgainst(launched_attacks[Len(launched_attacks)])) <= 1 ]_vars

\* ------------------------------------------------------------------------
\* SpecMiss : launches of any attack of scenario-1 and the blue actions that
\* answer them.  The initial state is the one reached by: start, briefing
\* dismissed, red scans with Nmap from 198.51.100.7 (a wrong tool: -1,
\* clamped at 0).  Requests are counted from this state on.
\* ------------------------------------------------------------------------
MissState ==
    [DefenceState EXCEPT !.red_scan_completed = TRUE,
                         !.red_scan_results = <<"Nmap">>,
                         !.red_scan_ips = {"198.51.100.7"}]

MissInit ==
    /\ objs = [o \in 0..MaxResets |-> IF o = 0 THEN MissState ELSE GameState]
    /\ cur = 0
    /\ score = Score
    /\ launched_attacks = <<>>
    /\ blue_actions = <<>>
    /\ h = [i \in 1..MaxInflight |-> Idle]
    /\ tm = [t \in {"startup", "game"} |-> Task(0)]
    /\ ev = Ev("run_scan", "accepted")
    /\ awards = NoAwards
    /\ accL = 0
    /\ accA = 0
    /\ nreq = 0
    /\ TallyIdle
    /\ ResolveIdle

MissNext ==
    \/ \E aid \in AttackIds("scenario-1"), ip \in IPs : launch_attack(aid, ip)
    \/ \E i \in 1..MaxInflight : launch_attack_resume(i)
    \/ \E act \in ActionInputs : submit_action(act)
    \/ \E i \in 1..MaxInflight : submit_action_resume(i)

SpecMiss == MissInit /\ [][MissNext]_vars

\* C40: an attack whose is_correct_choice is false adds no execution points
\* to red's score: a blue action that triggers the resolution of such an
\* attack gets a red delta that is not positive.
C40_NoExecutionPointsForMiss ==
    [][ \A i \in DOMAIN h :
          (/\ h[i].kind = "submit_action"
           /\ h[i].pc = "taken"
           /\ h'[i].pc = "resolved"
           /\ IncorrectAttack(launched_attacks[Len(launched_attacks)].attack_id))
          => h'[i].dr <= 0 ]_vars

\* ------------------------------------------------------------------------
\* SpecEndgame : the game from late in a round of scenario-1 (four turns per
\* side).  The initial state is the one reached by: start, briefing
\* dismissed, red's first turn timed out, blue blocks 203.99.113.10 in each
\* of its four turns, red launches from that address three times (each
\* launch blocked, +8 blue).  Requests are counted from this state on.
\* ------------------------------------------------------------------------
EndgameState ==
    [GameState EXCEPT !.status = "running", !.round = 1,
                      !.current_scenario_id = "scenario-1",
                      !.max_turns_per_side = scenarios_cache["scenario-1"].max_turns_per_side,
                      !.current_turn = "red",
                      !.start_elapsed = ClockStep, !.turn_elapsed = 0,
                      !.red_briefing_dismissed = TRUE,
                      !.blue_action_this_turn = TRUE,
                      !.red_turn_count = 3, !.blue_turn_count = 4,
                      !.blocked_ips = {"203.99.113.10"}]

EndgameInit ==
    /\ objs = [o \in 0..MaxResets |-> IF o = 0 THEN EndgameState ELSE GameState]
    /\ cur = 0
    /\ score = [red |-> 0, blue |-> 24]
    /\ launched_attacks = <<>>
    /\ blue_actions = [k \in 1..4 |-> BlueAction("block_ip", "203.99.113.10")]
    /\ h = [i \in 1..MaxInflight |-> Idle]
    /\ tm = [t \in {"startup", "game"} |-> Task(0)]
    /\ ev = Ev("submit_action", "acknowledged")
    /\ awards = NoAwards
    /\ accL = 0
    /\ accA = 0
    /\ nreq = 0
    /\ TallyIdle
    /\ ResolveIdle

SpecEndgame == EndgameInit /\ [][Next]_vars

\* C15: with max_turns_per_side set, a step that counts a completed turn and
\* leaves both turn counters at or above the limit sets status to finished
\* and leaves current_turn as it was.
C15_TurnLimitFinishes ==
    [][ \A o \in DOMAIN objs :
          LET g == objs[o]
              g1 == objs'[o]
          IN  (/\ g1.round = g.round
               /\ g1.red_turn_count + g1.blue_turn_count
                    > g.red_turn_count + g.blue_turn_count
               /\ g1.max_turns_per_side > 0
               /\ g1.red_turn_count >= g1.max_turns_per_side
               /\ g1.blue_turn_count >= g1.max_turns_per_side)
              => /\ g1.status = "finished"
                 /\ g1.current_turn = g.current_turn ]_vars

\* C13: while the game is running a scan of the current scenario is accepted
\* whatever current_turn is and however many scans the turn already had (the
\* request is enabled as long as the model's own request and scan budgets
\* last), and an accepted scan leaves current_turn, both turn counters and
\* both per-turn guards as they were.
ScanFrame ==
    /\ ev' = Ev("run_scan", "accepted")
    => /\ cur' = cur
       /\ objs'[cur].current_turn = objs[cur].current_turn
       /\ objs'[cur].red_turn_count = objs[cur].red_turn_count
       /\ objs'[cur].blue_turn_count = objs[cur].blue_turn_count
       /\ objs'[cur].red_attack_this_turn = objs[cur].red_attack_this_turn
       /\ objs'[cur].blue_action_this_turn = objs[cur].blue_action_this_turn
       /\ objs'[cur].status = objs[cur].status

ScanAccepted ==
    (/\ objs[cur].status = "running"
     /\ objs[cur].current_scenario_id # NoScenario
     /\ nreq < MaxRequests
     /\ Len(objs[cur].red_scan_results) < MaxScans)
    => \A tool \in ScanTools : \E ip \in ScanIPs : ENABLED run_scan(tool, ip)

C13_ScanAtAnyTime == []ScanAccepted /\ [][ScanFrame]_vars

\* a second scan accepted while it is blue's turn and blue has already acted
C13_SecondScanInBlueTurn ==
    /\ ev = Ev("run_scan", "accepted")
    /\ objs[cur].current_turn = "blue"
    /\ Len(objs[cur].red_scan_results) = 2
    /\ objs[cur].red_turn_count = 1

\* ------------------------------------------------------------------------
\* SpecTally : votes are stored in one ledger and tallied after each vote
\* ------------------------------------------------------------------------
MaxSubmits == 4
Voters == {"v1", "v2", "v3"}
TallyChoices == {"A", "B", "C"}

SubmitVote(v, c) ==
    /\ nSubmits < MaxSubmits
    /\ ledger' = StoreVote(ledger, v, c)
    /\ tally' = Tally(ledger')
    /\ latest' = [x \in DOMAIN latest \cup {v} |-> IF x = v THEN c ELSE latest[x]]
    /\ lastVote' = <<v, c, IF ~HasKey(ledger, v) THEN "new"
                           ELSE IF <<v, c>> \in Range(ledger) THEN "same"
                           ELSE "changed">>
    /\ nSubmits' = nSubmits + 1
    /\ UNCHANGED <<gameVars, resVars>>

TallyNext == \E v \in Voters, c \in TallyChoices : SubmitVote(v, c)

SpecTally == Init /\ [][TallyNext]_vars

\* what the history says: the voters whose latest vote is c
VotersFor(c) == {v \in DOMAIN latest : latest[v] = c}

LargestCount ==
    CHOOSE n \in 0..Cardinality(Voters) :
        /\ \A c \in TallyChoices : Cardinality(VotersFor(c)) <= n
        /\ n > 0 => \E c \in TallyChoices : Cardinality(VotersFor(c)) = n

\* C4: hasMajority is true exactly when the largest vote count is strictly
\* greater than half the number of voters; a tie never has a majority and
\* an empty ledger never has one.
C4_MajorityIsStrict ==
    /\ tally.hasMajority <=> 2 * LargestCount > Cardinality(DOMAIN latest)
    /\ (\E c, d \in TallyChoices :
           c # d /\ Cardinality(VotersFor(c)) = LargestCount
                 /\ Cardinality(VotersFor(d)) = LargestCount) => ~tally.hasMajority
    /\ DOMAIN latest = {} => ~tally.hasMajority

\* two voters, one vote each for different choices: a tie, no majority
C4_TieReached ==
    /\ Cardinality(DOMAIN latest) = 2
    /\ LargestCount = 1
    /\ ~tally.hasMajority
    /\ nSubmits > 0

\* C5: the counts map gives for each choice the number of voters whose
\* latest vote is that choice, totalVotes is the number of distinct voters,
\* the counts sum to totalVotes, and majorityChoice has the largest count.
C5_CountsMatchLatestVotes ==
    /\ \A c \in TallyChoices : DictGet0(tally.counts, c) = Cardinality(VotersFor(c))
    /\ \A i, j \in 1..Len(tally.counts) : tally.counts[i][1] = tally.counts[j][1] => i = j
    /\ \A i \in 1..Len(tally.counts) : tally.counts[i][1] \in TallyChoices /\ tally.counts[i][2] > 0
    /\ tally.totalVotes = Cardinality(DOMAIN latest)
    /\ SumSeq([i \in 1..Len(tally.counts) |-> tally.counts[i][2]]) = tally.totalVotes
    /\ tally.totalVotes > 0 =>
          /\ tally.majorityChoice \in TallyChoices
          /\ DictGet0(tally.counts, tally.majorityChoice) = LargestCount
          /\ tally.majorityCount = LargestCount

\* the votes A, B, A of three voters give {A: 2, B: 1}, majority A
C5_VotesABA ==
    /\ ledger = << <<"v1", "A">>, <<"v2", "B">>, <<"v3", "A">> >>
    /\ tally.counts = << <<"A", 2>>, <<"B", 1>> >>
    /\ tally.totalVotes = 3
    /\ tally.majorityChoice = "A"
    /\ tally.hasMajority

\* C6: the same vote by the same voter a second time leaves ledger, counts
\* and totalVotes as they were; a vote by a voter who has voted replaces
\* that voter's vote and adds none.
C6_VoteIsIdempotent ==
    [][ nSubmits' # nSubmits =>
          /\ lastVote'[3] = "same" => (ledger' = ledger /\ tally' = tally)
          /\ lastVote'[3] # "new" =>
                /\ Len(ledger') = Len(ledger)
                /\ tally'.totalVotes = tally.totalVotes
                /\ <<lastVote'[1], lastVote'[2]>> \in Range(ledger')
                /\ \A q \in Range(ledger') : q[1] = lastVote'[1] => q[2] = lastVote'[2]
          /\ tally'.totalVotes = Cardinality({q[1] : q \in Range(ledger')}) ]_vars

\* a voter has repeated their vote, with another voter in the ledger
C6_SameVoteTwice ==
    /\ nSubmits >= 3
    /\ lastVote[3] = "same"
    /\ tally.totalVotes = 2

\* ------------------------------------------------------------------------
\* SpecResolve : alerts are generated for an attack, then the attack is
\* resolved against a list of defending actions
\* ------------------------------------------------------------------------
MaxDefence == 2
MaxAlerts == 4               \* alerts of a generated list that the resolver is handed
Jitters == {0, 1}            \* random.uniform(0, 1), in half seconds: 0 s or 0.5 s
NoiseJitters == {0, 5, 10}   \* random.uniform(0, 5), in half seconds
NoiseSources == {"IDS", "EDR"}
DefenceTargets == {"web-1", "db-1"}

\* notes of a defending action: none, one that names the attack, one that
\* does not
DefenceNotes ==
    { <<>>, <<"SQL", "injection", "attack", "detected">>,
      <<"Isolate", "compromised", "host">> }

DefenceAction(ty, tg, nt) == [type |-> ty, target |-> tg, note |-> nt, age |-> 0]

\* the lists of defending actions handed to the resolver: none, one action
\* with any of the notes, or several actions without notes
Defences ==
    { <<>> }
    \cup { << DefenceAction(ty, tg, nt) >> :
             ty \in BlueActionTypes, tg \in DefenceTargets, nt \in DefenceNotes }
    \cup UNION { [1..n -> { DefenceAction(ty, tg, <<>>) :
                              ty \in BlueActionTypes, tg \in DefenceTargets }] :
                 n \in 2..MaxDefence }

\* alerts.generate_alerts(attack, scenario, now, include_noise=with_noise)
\* for an attack on web-1; the noise is drawn only when it is asked for
Generate(ty, correct, with_noise, j, nj, src) ==
    LET attack == MkAttack("atk", ty, "web-1", correct, NoTool)
        n      == Len(templates(ty))
        noise  == [k \in 1..NoiseCount(n, 2) |-> NoiseAlert(nj, src, "low")]
    IN  /\ rAttack.id = "-"
        /\ ~with_noise => (nj = 0 /\ src = "IDS")
        /\ rAttack' = attack
        /\ include_noise' = with_noise
        /\ rAlerts' = generate_alerts(attack, with_noise, [i \in 1..n |-> j], noise)
        /\ UNCHANGED <<rActions, rOutcome>>
        /\ UNCHANGED <<gameVars, tallyVars>>

\* the caller hands the resolver only the first k alerts (k = 0: none)
Observe(k) ==
    /\ rAttack.id # "-"
    /\ rOutcome.result = "-"
    /\ k < Len(rAlerts)
    /\ rAlerts' = SubSeq(rAlerts, 1, k)
    /\ UNCHANGED <<rAttack, rActions, rOutcome, include_noise>>
    /\ UNCHANGED <<gameVars, tallyVars>>

\* resolver.resolve_outcome(attack, actions, posture, clock, alerts=alerts)
Resolve(actions) ==
    /\ rAttack.id # "-"
    /\ rOutcome.result = "-"
    /\ Len(actions) <= MaxDefence
    /\ rActions' = actions
    /\ rOutcome' = resolve_outcome(rAttack, actions, 0, rAlerts)
    /\ UNCHANGED <<rAttack, rAlerts, include_noise>>
    /\ UNCHANGED <<gameVars, tallyVars>>

ResolveNext ==
    \/ \E ty \in AttackTypes, correct \in BOOLEAN, with_noise \in BOOLEAN, j \in Jitters,
          nj \in NoiseJitters, src \in NoiseSources :
             Generate(ty, correct, with_noise, j, nj, src)
    \/ \E k \in 0..MaxAlerts : Observe(k)
    \/ \E actions \in Defences : Resolve(actions)

SpecResolve == Init /\ [][ResolveNext]_vars

\* the generator's alerts for the attack, whatever the jitter and the noise
FromGenerator ==
    /\ Len(rAlerts) = Len(templates(rAttack.attack_type)) + 1
    /\ \A i \in 1..Len(templates(rAttack.attack_type)) :
          \E k \in 1..Len(rAlerts) :
              /\ rAlerts[k].summary = templates(rAttack.attack_type)[i].summary
              /\ rAlerts[k].source = templates(rAttack.attack_type)[i].source
    /\ \A k \in 1..(Len(rAlerts) - 1) : rAlerts[k].timestamp <= rAlerts[k + 1].timestamp

FixedValue(ty) ==
    CASE ty = "RCE" -> 10
      [] ty = "SQLi" -> 8
      [] ty = "Bruteforce" -> 5
      [] ty = "Phishing" -> 3
      [] ty = "LateralMove" -> 3
      [] ty = "Exfil" -> 5

CorrectAttackUndefended ==
    /\ rOutcome.result # "-"
    /\ rAttack.is_correct_choice
    /\ FromGenerator
    /\ rActions = <<>>

\* C10: for every attack type, the correct attack resolved against the
\* generator's alerts for it and no defending action gives result 'hit' and
\* a positive red score delta equal to the type's fixed value (RCE 10,
\* SQLi 8, Bruteforce 5, Phishing 3, LateralMove 3, Exfil 5).
C10_UndefendedCorrectAttackScores ==
    CorrectAttackUndefended =>
        /\ rOutcome.result = "hit"
        /\ rOutcome.red > 0
        /\ rOutcome.red = FixedValue(rAttack.attack_type)

\* a tiered resolution of an RCE attack against isolate_host on its destination
IsolateDestinationOfRCE ==
    /\ rOutcome.result # "-"
    /\ rAlerts # <<>>
    /\ rAttack.attack_type = "RCE"
    /\ Len(rActions) = 1
    /\ rActions[1].type = "isolate_host"
    /\ rActions[1].target = rAttack.to_node

\* C11 (as stated): for an RCE attack and an isolate_host action on the
\* attack's destination node the tiered resolution classifies the action
\* as 'optimal' and returns 'successful_block', whether or not the attack
\* has succeeded.
C11_IsolateDestinationAlwaysOptimal ==
    IsolateDestinationOfRCE =>
        /\ rOutcome.evaluations[1].effectiveness = "optimal"
        /\ rOutcome.result = "successful_block"

\* C11: for an RCE attack and an isolate_host action on the attack's
\* destination node the tiered resolution gives 'optimal' (10 points) and
\* 'successful_block' when the attack has succeeded, and 'effective'
\* (6 points) and 'successful_mitigation' when it has not.
C11_IsolateDestinationByTier ==
    IsolateDestinationOfRCE =>
        IF rOutcome.attack_succeeded
        THEN /\ rOutcome.evaluations[1].effectiveness = "optimal"
             /\ rOutcome.blue = 10
             /\ rOutcome.result = "successful_block"
        ELSE /\ rOutcome.evaluations[1].effectiveness = "effective"
             /\ rOutcome.blue = 6
             /\ rOutcome.result = "successful_mitigation"

\* the host is isolated before an alert shows that the exploit has run
C11_IsolatedBeforeExploit ==
    /\ IsolateDestinationOfRCE
    /\ ~rOutcome.attack_succeeded
    /\ rOutcome.result = "successful_mitigation"

\* an Attack built from id, type and nodes only: models.Attack defaults
DefaultFlags(attack) ==
    /\ ~attack.is_correct_choice
    /\ ~attack.requires_scan
    /\ attack.required_scan_tool = NoTool

\* C20: resolve_outcome with no alerts and no blue action returns 'hit' and
\* a red score delta equal to the attack type's fixed value (10 for RCE),
\* for an Attack constructed with only id, type and nodes.
C20_DefaultAttackHitsWithoutAlerts ==
    ( /\ rOutcome.result # "-"
      /\ rAlerts = <<>>
      /\ rActions = <<>>
      /\ DefaultFlags(rAttack) )
    => /\ rOutcome.result = "hit"
       /\ rOutcome.red = FixedValue(rAttack.attack_type)

\* C21: resolve_outcome with no alerts and one isolate_host action on the
\* attack's to_node returns 'blocked' and a blue delta of at least 8, for an
\* Attack constructed with default flags.
C21_IsolationBlocksDefaultAttack ==
    ( /\ rOutcome.result # "-"
      /\ rAlerts = <<>>
      /\ Len(rActions) = 1
      /\ rActions[1].type = "isolate_host"
      /\ rActions[1].target = rAttack.to_node
      /\ DefaultFlags(rAttack) )
    => /\ rOutcome.result = "blocked"
       /\ rOutcome.blue >= 8

\* the note of the action names the attack
NamesAttack(note, ty) ==
    \E k \in 1..Len(note) :
        \E term \in AttributionTerms(ty) : WordHas(Lower(note[k]), term)

\* C22: resolve_outcome with no alerts and one blue action whose note names
\* the attack returns a blue delta of at least 2, for an Attack constructed
\* with default flags.
C22_AttributionBonusForDefaultAttack ==
    ( /\ rOutcome.result # "-"
      /\ rAlerts = <<>>
      /\ Len(rActions) = 1
      /\ NamesAttack(rActions[1].note, rAttack.attack_type)
      /\ DefaultFlags(rAttack) )
    => rOutcome.blue >= 2

\* C23: for every attack type, generate_alerts with include_noise returns
\* every templated alert of the type and at least one noise alert besides (so
\* at least 2 alerts for RCE), and no noise alert has a summary that a
\* template of any attack type uses.
C23_TemplatesPlusNoise ==
    [][ (rAttack.id = "-" /\ rAttack'.id # "-" /\ include_noise')
        => LET t  == templates(rAttack'.attack_type)
               al == rAlerts'
               real  == {k \in 1..Len(al) : al[k].id = "alert"}
               noise == {k \in 1..Len(al) : al[k].id = "noise"}
           IN  /\ Cardinality(real) = Len(t)
               /\ \A i \in 1..Len(t) :
                     \E k \in real : /\ al[k].summary = t[i].summary
                                     /\ al[k].source = t[i].source
                                     /\ al[k].severity = t[i].severity
               /\ Cardinality(noise) >= 1
               /\ Len(al) = Cardinality(real) + Cardinality(noise)
               /\ rAttack'.attack_type = "RCE" => Len(al) >= 2
               /\ \A k \in noise : \A ty \in AttackTypes :
                     \A i \in 1..Len(templates(ty)) :
                        al[k].summary # templates(ty)[i].summary ]_vars

\* the alerts of an RCE attack, the noise alert sorted between the templated ones
C23_NoiseAmongRCEAlerts ==
    /\ rAttack.attack_type = "RCE"
    /\ rOutcome.result = "-"
    /\ Len(rAlerts) = 5
    /\ rAlerts[3].id = "noise"

\* a tiered resolution has been made
TieredResolved == rOutcome.result # "-" /\ rAlerts # <<>>

\* C24: the overall result of a tiered resolution follows strict precedence
\* over the evaluated actions: successful_block if any is optimal, else
\* successful_mitigation if any is effective, else unsuccessful_mitigation
\* if any has positive points, else hit if there was no action, else
\* unsuccessful_block.
C24_ResultPrecedence ==
    TieredResolved =>
        LET e == rOutcome.evaluations
            n == Len(e)
        IN  /\ n = Len(rActions)
            /\ rOutcome.result =
                 ( IF \E i \in 1..n : e[i].effectiveness = "optimal"
                   THEN "successful_block"
                   ELSE IF \E i \in 1..n : e[i].effectiveness = "effective"
                   THEN "successful_mitigation"
                   ELSE IF \E i \in 1..n : e[i].points > 0
                   THEN "unsuccessful_mitigation"
                   ELSE IF rActions = <<>> THEN "hit"
                   ELSE "unsuccessful_block" )

\* an effective action followed by an optimal one: the optimal one decides
C24_OptimalAfterEffective ==
    /\ TieredResolved
    /\ Len(rActions) = 2
    /\ rOutcome.evaluations[1].effectiveness = "effective"
    /\ rOutcome.evaluations[2].effectiveness = "optimal"
    /\ rOutcome.result = "successful_block"

\* C25: in a tiered resolution the red delta is the attack type's fixed
\* execution value (RCE 10, SQLi 8, Bruteforce 5, Phishing 3, LateralMove 3,
\* Exfil 5) exactly when the attack has succeeded and the overall result is
\* hit, unsuccessful_block or unsuccessful_mitigation, and 0 otherwise.
C25_RedExecutionPoints ==
    TieredResolved =>
        rOutcome.red =
            ( IF /\ rOutcome.attack_succeeded
                 /\ rOutcome.result \in {"hit", "unsuccessful_block", "unsuccessful_mitigation"}
              THEN FixedValue(rAttack.attack_type)
              ELSE 0 )

\* a succeeded attack met by a defence that earned points without containing
\* it: red still gets its execution points
C25_ScoredDespitePartialDefence ==
    /\ TieredResolved
    /\ rOutcome.attack_succeeded
    /\ rOutcome.result = "unsuccessful_mitigation"
    /\ rOutcome.blue > 0
    /\ rOutcome.red = FixedValue(rAttack.attack_type)
    /\ rOutcome.red < 10

\* the (action type, target-correct) pair of action i is not in the matrix
AbsentPair(i) ==
    get_scoring_matrix(rAttack.attack_type, rOutcome.attack_succeeded,
                       rActions[i].type,
                       rActions[i].target = rAttack.to_node
                         \/ rActions[i].target = rAttack.from_node) = NoTier

\* C26: in a tiered resolution an action whose (action type, target-correct)
\* pair is absent from the scoring matrix is evaluated as 'ineffective' with
\* -2 points and result 'unsuccessful_mitigation', and the blue delta is the
\* sum of the points of all evaluated actions.
C26_DefaultTierAndBlueSum ==
    TieredResolved =>
        LET e == rOutcome.evaluations
        IN  /\ Len(e) = Len(rActions)
            /\ \A i \in 1..Len(e) :
                  AbsentPair(i) => e[i] = Tier("ineffective", -2, "unsuccessful_mitigation")
            /\ rOutcome.blue = SumSeq([i \in 1..Len(e) |-> e[i].points])

\* an action outside the matrix next to one that earned points
C26_DefaultNextToScoring ==
    /\ TieredResolved
    /\ Len(rActions) = 2
    /\ AbsentPair(1)
    /\ ~AbsentPair(2)
    /\ rOutcome.evaluations[2].points > 0
    /\ rOutcome.blue = rOutcome.evaluations[2].points - 2


\* C31: the identify-action mini-game takes update_waf as the correct answer
\* for an attack of type RCE or SQLi and block_ip for every other type.
C31_CorrectActionByType ==
    rAttack.id # "-" =>
        CorrectAction(rAttack.attack_type) =
            (IF rAttack.attack_type \in {"RCE", "SQLi"} THEN "update_waf" ELSE "block_ip")

\* C33: the list generate_alerts returns is ordered by timestamp ascending,
\* for every attack type, with and without noise: of two adjacent alerts
\* the earlier one's timestamp is <= the later one's.
C33_AlertsOrderedByTime ==
    \A k \in 1..(Len(rAlerts) - 1) : rAlerts[k].timestamp <= rAlerts[k + 1].timestamp

\* a generated list in which a noise alert lies strictly between two
\* templated alerts in time
C33_NoiseSortedIn ==
    /\ include_noise
    /\ rOutcome.result = "-"
    /\ \E k \in 2..(Len(rAlerts) - 1) :
          /\ rAlerts[k].id = "noise"
          /\ rAlerts[k - 1].id = "alert"
          /\ rAlerts[k + 1].id = "alert"
          /\ rAlerts[k - 1].timestamp < rAlerts[k].timestamp
          /\ rAlerts[k].timestamp < rAlerts[k + 1].timestamp

====
